---- MODULE Spec2Model ----
(***************************************************************************)
(* Model of containeroo/resolver: the scheme registry (Register,           *)
(* SetUnknownSchemePolicy, ResolveVariable) and the ${...} string          *)
(* interpolation engine (ResolveString / resolveStringDepth).              *)
(*                                                                         *)
(* A Go string is a sequence of one-character strings.  Positions keep the *)
(* 0-based indexing of the Go source; Sub(str, i, j) is the slice str[i:j]. *)
(***************************************************************************)
EXTENDS Integers, Sequences, FiniteSets, TLC

VARIABLES
    order,      \* Registry.order: schemes in resolution order
    backing,    \* Registry.backing: scheme -> resolver
    unknown,    \* Registry.unknown: policy for unknown schemes
    pc,         \* position of the caller: "idle", "pass" (inside the pass loop), "done"
    op,         \* the operation in progress or last returned
    s,          \* argument of the current call (string or value)
    maxDepth,   \* maxDepth argument of resolveStringDepth
    out,        \* resolveStringDepth: local `out`, input of the next pass
    pass,       \* number of passes run so far
    log,        \* ResolveVariable calls made by resolveStringDepth: [tok, pos, pass]
    invoked,    \* Resolver.Resolve invocations of the current call: [scheme, rest]
    res,        \* returned string
    err,        \* returned error (Nil when none)
    rerun,      \* TRUE when the current call's input is the previous call's output
    values,     \* ResolveSlice / ResolveSliceBestEffort: the caller's slice
    slice,      \* returned slice: [nil, elems]
    errs,       \* returned error list of ResolveSliceBestEffort
    mu,         \* Registry.mu: [w |-> goroutine holding Lock or 0, r |-> goroutines holding RLock]
    g,          \* goroutines calling the registry concurrently: id -> [pc, scheme, res]
    hist,       \* Register calls in the order they acquired the lock: [scheme, res]
    sel         \* the selector call in progress: [op, ...]

vars == <<order, backing, unknown, pc, op, s, maxDepth, out, pass, log, invoked, res, err, rerun,
          values, slice, errs, mu, g, hist, sel>>

sliceVars == <<values, slice, errs>>

concVars == <<mu, g, hist>>

selVars == <<sel>>

-----------------------------------------------------------------------------
(* Bounds of the model *)

\* longest input, counted in pieces of Pieces
MaxPieces == 3
\* largest maxDepth handed to resolveStringDepth directly
MaxDepthArg == 3

-----------------------------------------------------------------------------
(* Strings *)

\* Go slice str[i:j], 0-based, half open
Sub(str, i, j) == SubSeq(str, i + 1, j)

\* Go str[i]
At(str, i) == str[i + 1]

\* strings.IndexByte(str, c): index of the first c, -1 when absent
IndexByte(str, c) ==
    IF \E i \in 1..Len(str) : str[i] = c
    THEN (CHOOSE i \in 1..Len(str) : str[i] = c /\ \A j \in 1..(i - 1) : str[j] # c) - 1
    ELSE -1

\* strings.HasPrefix(str, pre)
HasPrefix(str, pre) == Len(pre) <= Len(str) /\ SubSeq(str, 1, Len(pre)) = pre

\* strings.HasSuffix(str, suf)
HasSuffix(str, suf) ==
    Len(suf) <= Len(str) /\ SubSeq(str, Len(str) - Len(suf) + 1, Len(str)) = suf

\* strings.Contains(str, sub)
Contains(str, sub) ==
    \E i \in 0..(Len(str) - Len(sub)) : Sub(str, i, i + Len(sub)) = sub

\* the white space strings.TrimSpace removes
WhiteSpace == {" ", "\t", "\n", "\r"}

\* strings.TrimSpace(str): leading and trailing white space removed
RECURSIVE TrimLeft(_)
TrimLeft(str) ==
    IF str # <<>> /\ Head(str) \in WhiteSpace THEN TrimLeft(Tail(str)) ELSE str

RECURSIVE TrimRight(_)
TrimRight(str) ==
    IF str # <<>> /\ str[Len(str)] \in WhiteSpace
    THEN TrimRight(SubSeq(str, 1, Len(str) - 1))
    ELSE str

TrimSpace(str) == TrimRight(TrimLeft(str))

-----------------------------------------------------------------------------
(* Errors: the sentinels errors.Is finds in the chain, and the message     *)
(* layers from the outermost wrapper inwards.                              *)

Nil == [is |-> {}, text |-> <<>>]

ErrNotFound == [is |-> {"ErrNotFound"}, text |-> <<[fmt |-> "resolver: not found", str |-> <<>>, num |-> 0]>>]

ErrBadPath == [is |-> {"ErrBadPath"}, text |-> <<[fmt |-> "resolver: bad path", str |-> <<>>, num |-> 0]>>]

\* errors.New(msg) of a custom resolver: a sentinel of its own
ErrorsNew(msg) == [is |-> {msg}, text |-> <<[fmt |-> msg, str |-> <<>>, num |-> 0]>>]

\* fmt.Errorf(format, str, num) with one %w verb wrapping e
Errorf(format, str, num, e) ==
    [is |-> e.is, text |-> <<[fmt |-> format, str |-> str, num |-> num]>> \o e.text]

\* errors.Is(e, target) for a sentinel target
ErrorsIs(e, target) == target.is \subseteq e.is /\ target.is # {}

-----------------------------------------------------------------------------
(* Resolvers: the ResolverFunc values and stub resolvers of the tests.     *)
(*   const: always returns out            (stubResolver{out: ...})         *)
(*   echo:  returns out + v               (stubResolver{}, countingResolver) *)
(*   loop:  returns "${" + out + v + "}"  (self-reintroducing token)       *)
(*   fail:  returns "", errors.New(out)   (stubResolver{err: ...})         *)
(*   partial: returns out, errors.New(..) (a ResolverFunc returning a value *)
(*                                         beside its error)               *)

ResolveConst(r, v) == [val |-> r.out, err |-> Nil]

ResolveEcho(r, v) == [val |-> r.out \o v, err |-> Nil]

ResolveLoop(r, v) == [val |-> <<"$", "{">> \o r.out \o v \o <<"}">>, err |-> Nil]

ResolveFail(r, v) == [val |-> <<>>, err |-> ErrorsNew("boom")]

ResolvePartial(r, v) == [val |-> r.out, err |-> ErrorsNew("kaput")]

\* Resolver.Resolve(v)
Resolve(r, v) ==
    CASE r.kind = "const" -> ResolveConst(r, v)
      [] r.kind = "echo"  -> ResolveEcho(r, v)
      [] r.kind = "loop"  -> ResolveLoop(r, v)
      [] r.kind = "fail"  -> ResolveFail(r, v)
      [] r.kind = "partial" -> ResolvePartial(r, v)

-----------------------------------------------------------------------------
(* Registry *)

PassThrough == 0
ErrorOnUnknown == 1

\* strings.CutPrefix(value, scheme): the rest after the prefix
CutPrefix(value, scheme) == Sub(value, Len(scheme), Len(value))

\* the range loop that keeps looking after a match: the last matching scheme
LastMatch(value) ==
    IF \E i \in 1..Len(order) : HasPrefix(value, order[i])
    THEN CHOOSE i \in 1..Len(order) :
            /\ HasPrefix(value, order[i])
            /\ \A j \in (i + 1)..Len(order) : ~HasPrefix(value, order[j])
    ELSE 0

\* the range loop of ResolveVariable: index in order of the first scheme that
\* is a prefix of value, 0 when none is
FirstMatch(value) ==
    IF \E i \in 1..Len(order) : HasPrefix(value, order[i])
    THEN CHOOSE i \in 1..Len(order) :
            /\ HasPrefix(value, order[i])
            /\ \A j \in 1..(i - 1) : ~HasPrefix(value, order[j])
    ELSE 0

\* the strict policy refusing every unknown value, with or without ':'
UnknownSchemeNoColonCheck(value) ==
    IF unknown = ErrorOnUnknown
    THEN [val |-> <<>>, err |-> Errorf("%w: %q", value, 0, ErrNotFound), inv |-> <<>>]
    ELSE [val |-> value, err |-> Nil, inv |-> <<>>]

\* the unknown-scheme tail of ResolveVariable
UnknownScheme(value) ==
    IF unknown = ErrorOnUnknown /\ Contains(value, <<":">>)
    THEN [val |-> <<>>, err |-> Errorf("%w: %q", value, 0, ErrNotFound), inv |-> <<>>]
    ELSE [val |-> value, err |-> Nil, inv |-> <<>>]

\* Registry.ResolveVariable(value): [val, err] and the resolver invocation made
ResolveVariable(value) ==
    LET i == FirstMatch(value) IN
    IF i # 0
    THEN LET scheme == order[i]
             rest   == CutPrefix(value, scheme)
             r      == Resolve(backing[scheme], rest)
         IN  [val |-> r.val, err |-> r.err, inv |-> <<[scheme |-> scheme, rest |-> rest]>>]
    ELSE UnknownScheme(value)

-----------------------------------------------------------------------------
(* Interpolation: one pass of resolveStringDepth *)

PublicMaxDepth == 8

\* the escape test without the look at the character after '$'
isEscapedDollarNoBrace(o, p, dollar) ==
    /\ dollar > p
    /\ At(o, dollar - 1) = "\\"

isEscapedDollarBrace(o, p, dollar) ==
    /\ dollar > p
    /\ At(o, dollar - 1) = "\\"
    /\ dollar + 1 < Len(o)
    /\ At(o, dollar + 1) = "{"

\* the token test that takes any '$' with a character after it
isTokenStartNoBrace(o, dollar) == dollar + 1 < Len(o)

isTokenStart(o, dollar) ==
    /\ dollar + 1 < Len(o)
    /\ At(o, dollar + 1) = "{"

\* the token bounds without the check for an empty or blank token
tokenBoundsNoBlankCheck(o, dollar) ==
    LET start    == dollar + 2
        closeRel == IndexByte(Sub(o, start, Len(o)), "}")
        end      == start + closeRel
    IN  IF closeRel < 0
        THEN [start |-> 0, end |-> 0,
              err |-> Errorf("%w: missing closing '}' at offset %d", <<>>, dollar, ErrBadPath)]
        ELSE [start |-> start, end |-> end, err |-> Nil]

tokenBounds(o, dollar) ==
    LET start    == dollar + 2
        closeRel == IndexByte(Sub(o, start, Len(o)), "}")
        end      == start + closeRel
    IN  IF closeRel < 0
        THEN [start |-> 0, end |-> 0,
              err |-> Errorf("%w: missing closing '}' at offset %d", <<>>, dollar, ErrBadPath)]
        ELSE IF TrimSpace(Sub(o, start, end)) = <<>>
        THEN [start |-> 0, end |-> 0,
              err |-> Errorf("%w: empty ${} at offset %d", <<>>, dollar, ErrBadPath)]
        ELSE [start |-> start, end |-> end, err |-> Nil]

\* the resolver's error formatted with %v: its text kept, its identity lost
WrapResolveErrorNoUnwrap(token, e) ==
    [is |-> {}, text |-> <<[fmt |-> "resolve ${%s}: %v", str |-> token, num |-> 0]>> \o e.text]

\* the error returned when ResolveVariable(token) fails
WrapResolveError(token, e) == Errorf("resolve ${%s}: %w", token, 0, e)

RECURSIVE ScanFrom(_, _, _, _, _, _)

\* the replacement text scanned for tokens before it is written
EmitRescanned(b, text, val) == b \o text \o ScanFrom(val, 0, <<>>, FALSE, <<>>, <<>>).b

\* `b.WriteString(out[p:dollar])` and, for a resolved token,
\* `b.WriteString(val)`
Emit(b, text, val) == b \o text \o val

\* the inner loop `for p := 0; p < len(out); { ... }` from position p on, with
\* builder b; calls are the ResolveVariable calls made, inv the resolvers run
ScanFrom(o, p, b, expanded, calls, inv) ==
    IF p >= Len(o)
    THEN [b |-> b, expanded |-> expanded, err |-> Nil, calls |-> calls, inv |-> inv]
    ELSE
    LET dollarRel == IndexByte(Sub(o, p, Len(o)), "$") IN
    IF dollarRel < 0
    THEN [b |-> b \o Sub(o, p, Len(o)), expanded |-> expanded, err |-> Nil,
          calls |-> calls, inv |-> inv]
    ELSE
    LET dollar == p + dollarRel IN
    IF isEscapedDollarBrace(o, p, dollar)
    THEN ScanFrom(o, dollar + 2, b \o Sub(o, p, dollar - 1) \o <<"$", "{">>,
                  expanded, calls, inv)
    ELSE IF ~isTokenStart(o, dollar)
    THEN ScanFrom(o, dollar + 1, b \o Sub(o, p, dollar) \o <<"$">>, expanded, calls, inv)
    ELSE
    LET tb == tokenBounds(o, dollar) IN
    IF tb.err # Nil
    THEN [b |-> <<>>, expanded |-> expanded, err |-> tb.err, calls |-> calls, inv |-> inv]
    ELSE
    LET token == Sub(o, tb.start, tb.end)
        rv    == ResolveVariable(token)
        made  == Append(calls, [tok |-> token, pos |-> dollar])
    IN  IF rv.err # Nil
        THEN [b |-> <<>>, expanded |-> expanded,
              err |-> WrapResolveError(token, rv.err),
              calls |-> made, inv |-> inv \o rv.inv]
        ELSE ScanFrom(o, tb.end + 1, Emit(b, Sub(o, p, dollar), rv.val), TRUE,
                      made, inv \o rv.inv)

\* one iteration of `for range maxDepth`
ScanPass(o) == ScanFrom(o, 0, <<>>, FALSE, <<>>, <<>>)

\* the pass loop stopping when a pass changed nothing, instead of when it
\* expanded nothing
PassOutcomeUntilStable(r, o) ==
    IF r.err # Nil
    THEN [pc |-> "done", res |-> <<>>, err |-> r.err, out |-> o]
    ELSE IF r.b = o
    THEN [pc |-> "done", res |-> r.b, err |-> Nil, out |-> o]
    ELSE [pc |-> "pass", res |-> <<>>, err |-> Nil, out |-> r.b]

\* what resolveStringDepth does with the finished pass r over input o: return
\* the error, return the built string, or loop with out := b.String()
PassOutcome(r, o) ==
    IF r.err # Nil
    THEN [pc |-> "done", res |-> <<>>, err |-> r.err, out |-> o]
    ELSE IF ~r.expanded
    THEN [pc |-> "done", res |-> r.b, err |-> Nil, out |-> o]
    ELSE [pc |-> "pass", res |-> <<>>, err |-> Nil, out |-> r.b]

\* the check after the pass loop forgotten
DepthExceededNever(o) == FALSE

\* the check after the pass loop
DepthExceeded(o) == Contains(o, <<"$", "{">>)

-----------------------------------------------------------------------------
(* Inputs *)

\* the text the resolvers of the model return
OK == <<"O", "K">>

\* building blocks of the input strings: plain text, a bare '$', a backslash,
\* two complete tokens, an opening "${", a closing brace and a blank
Pieces ==
    { <<"x">>, <<"$">>, <<"\\">>, <<" ">>, <<"}">>, <<"$", "{">>,
      <<"$", "{", "a", ":", "b", "}">>, <<"$", "{", "b", ":", "}">> }

RECURSIVE Concat(_)
Concat(seqs) == IF seqs = <<>> THEN <<>> ELSE Head(seqs) \o Concat(Tail(seqs))

\* every string made of at most MaxPieces pieces
Inputs == UNION { { Concat(f) : f \in [1..n -> Pieces] } : n \in 0..MaxPieces }

\* the registries ResolveString is run against, each reachable by Register
\* calls on NewRegistry(): the multi-pass registry of
\* TestResolveString_InternalDepthHelper, the same one level deeper, a
\* self-reintroducing and a failing resolver, an echo stub beside a resolver
\* returning a bare '$', and the empty registry
SchemeA == <<"a", ":">>
SchemeB == <<"b", ":">>
SchemeC == <<"c", ":">>

Registries ==
    { [order |-> <<SchemeA, SchemeB>>,
       backing |-> (SchemeA :> [kind |-> "const", out |-> <<"$", "{", "b", ":", "}">>]
                 @@ SchemeB :> [kind |-> "const", out |-> OK])],
      [order |-> <<SchemeA, SchemeC, SchemeB>>,
       backing |-> (SchemeA :> [kind |-> "const", out |-> <<"$", "{", "c", ":", "}">>]
                 @@ SchemeC :> [kind |-> "const", out |-> <<"$", "{", "b", ":", "}">>]
                 @@ SchemeB :> [kind |-> "const", out |-> OK])],
      [order |-> <<SchemeA, SchemeB>>,
       backing |-> (SchemeA :> [kind |-> "loop", out |-> SchemeA]
                 @@ SchemeB :> [kind |-> "fail", out |-> <<>>])],
      [order |-> <<SchemeB, SchemeA>>,
       backing |-> (SchemeA :> [kind |-> "echo", out |-> <<"\\">>]
                 @@ SchemeB :> [kind |-> "const", out |-> <<"$">>])],
      [order |-> <<>>, backing |-> <<>>] }

\* the maxDepth arguments tried on resolveStringDepth
DepthArgs == 0..MaxDepthArg

\* the values handed to ResolveVariable directly
Values ==
    { <<>>, <<"x">>, <<":">>, <<"c", ":", "x">>, <<"a", ":">>, <<"a", ":", "b">>,
      <<"b", ":", "x">>, <<"a", ":", "b", ":", "x">> }

\* the schemes handed to Register: three well-formed ones, one of them a
\* prefix of another, one without the trailing colon and the empty one
SchemeAB == <<"a", ":", "b", ":">>

SchemeArgs == { SchemeA, SchemeAB, SchemeB, <<"a">>, <<>> }

\* the resolvers handed to Register
ResolverArgs ==
    { [kind |-> "const", out |-> OK],
      [kind |-> "echo", out |-> <<"s", "t", "u", "b", ":">>],
      [kind |-> "fail", out |-> <<>>] }

-----------------------------------------------------------------------------
(* Calls *)

\* a nil []string
NilSlice == [nil |-> TRUE, elems |-> <<>>]

\* an unlocked sync.RWMutex
Unlocked == [w |-> 0, r |-> {}]

\* no selector call
NoSel == [op |-> "none"]

NoCall ==
    /\ op = "none" /\ s = <<>> /\ maxDepth = 0 /\ out = <<>> /\ pass = 0
    /\ log = <<>> /\ invoked = <<>> /\ res = <<>> /\ err = Nil /\ rerun = FALSE
    /\ values = <<>> /\ slice = NilSlice /\ errs = <<>>

\* no goroutine beside the caller, no selector call
Sequential ==
    /\ mu = Unlocked /\ g = <<>> /\ hist = <<>>
    /\ sel = NoSel

\* entry of resolveStringDepth(str, d): out := s
Enter(name, str, d, again) ==
    /\ pc' = "pass"
    /\ op' = name
    /\ s' = str
    /\ maxDepth' = d
    /\ out' = str
    /\ pass' = 0
    /\ log' = <<>>
    /\ invoked' = <<>>
    /\ res' = <<>>
    /\ err' = Nil
    /\ rerun' = again
    /\ UNCHANGED <<order, backing, unknown, sliceVars, concVars, selVars>>

\* Registry.ResolveString(s)
ResolveString ==
    /\ pc = "idle"
    /\ \E str \in Inputs : Enter("ResolveString", str, PublicMaxDepth, FALSE)

\* Registry.resolveStringDepth(s, maxDepth), called directly
resolveStringDepth ==
    /\ pc = "idle"
    /\ \E str \in Inputs, d \in DepthArgs : Enter("resolveStringDepth", str, d, FALSE)

\* the caller hands the string a successful call returned to ResolveString again
ResolveStringAgain ==
    /\ pc = "done"
    /\ op \in {"ResolveString", "resolveStringDepth"}
    /\ err = Nil
    /\ ~rerun
    /\ Enter("ResolveString", res, PublicMaxDepth, TRUE)

\* the loop condition off by one: one pass too many
MorePassesOffByOne(n, d) == n <= d

\* the loop condition of `for range maxDepth` after n passes
MorePasses(n, d) == n < d

\* one iteration of the pass loop of resolveStringDepth
Pass ==
    /\ pc = "pass"
    /\ MorePasses(pass, maxDepth)
    /\ LET r == ScanPass(out)
           o == PassOutcome(r, out)
       IN
        /\ pass' = pass + 1
        /\ log' = log \o [i \in 1..Len(r.calls) |->
                            [tok |-> r.calls[i].tok, pos |-> r.calls[i].pos, pass |-> pass + 1]]
        /\ invoked' = invoked \o r.inv
        /\ pc' = o.pc
        /\ res' = o.res
        /\ err' = o.err
        /\ out' = o.out
    /\ UNCHANGED <<order, backing, unknown, op, s, maxDepth, rerun, sliceVars, concVars, selVars>>

\* after the loop: maxDepth passes were run
MaxDepthReached ==
    /\ pc = "pass"
    /\ ~MorePasses(pass, maxDepth)
    /\ pc' = "done"
    /\ IF DepthExceeded(out)
       THEN res' = <<>> /\ err' = Errorf("%w: interpolation depth exceeded", <<>>, 0, ErrBadPath)
       ELSE res' = out /\ err' = Nil
    /\ UNCHANGED <<order, backing, unknown, op, s, maxDepth, out, pass, log, invoked, rerun>>
    /\ UNCHANGED <<sliceVars, concVars, selVars>>

\* Registry.ResolveVariable(value), called directly
ResolveVariableCall ==
    /\ pc = "idle"
    /\ \E value \in Values :
        LET rv == ResolveVariable(value) IN
        /\ pc' = "done"
        /\ op' = "ResolveVariable"
        /\ s' = value
        /\ invoked' = rv.inv
        /\ res' = rv.val
        /\ err' = rv.err
    /\ UNCHANGED <<order, backing, unknown, maxDepth, out, pass, log, rerun>>
    /\ UNCHANGED <<sliceVars, concVars, selVars>>

\* the value a panicking call leaves with the (recovering) caller
Panic == [is |-> {"panic"}, text |-> <<[fmt |-> "resolver: scheme %q must end with colon", str |-> <<>>, num |-> 0]>>]

\* the argument check of Register
ValidScheme(scheme) == ~(scheme = <<>> \/ ~HasSuffix(scheme, <<":">>))

\* r.order after `if _, exists := r.backing[scheme]; !exists { append }`
RegisterOrder(ord, back, scheme) ==
    IF scheme \notin DOMAIN back THEN Append(ord, scheme) ELSE ord

\* r.backing after `r.backing[scheme] = res`
RegisterBacking(back, scheme, r) ==
    [k \in DOMAIN back \cup {scheme} |-> IF k = scheme THEN r ELSE back[k]]

\* Registry.Register(scheme, res)
Register ==
    /\ pc = "idle"
    /\ \E scheme \in SchemeArgs, r \in ResolverArgs :
        IF ~ValidScheme(scheme)
        THEN /\ pc' = "done"
             /\ op' = "Register"
             /\ s' = scheme
             /\ err' = Panic
             /\ UNCHANGED <<order, backing>>
        ELSE /\ order' = RegisterOrder(order, backing, scheme)
             /\ backing' = RegisterBacking(backing, scheme, r)
             /\ UNCHANGED <<pc, op, s, err>>
    /\ UNCHANGED <<unknown, maxDepth, out, pass, log, invoked, res, rerun>>
    /\ UNCHANGED <<sliceVars, concVars, selVars>>

\* Registry.SetUnknownSchemePolicy(p)
SetUnknownSchemePolicy ==
    /\ pc = "idle"
    /\ \E p \in {PassThrough, ErrorOnUnknown} : unknown' = p
    /\ UNCHANGED <<order, backing, pc, op, s, maxDepth, out, pass, log, invoked, res, err, rerun>>
    /\ UNCHANGED <<sliceVars, concVars, selVars>>

\* the caller drops the result
Return ==
    /\ pc = "done"
    /\ pc' = "idle"
    /\ op' = "none" /\ s' = <<>> /\ maxDepth' = 0 /\ out' = <<>> /\ pass' = 0
    /\ log' = <<>> /\ invoked' = <<>> /\ res' = <<>> /\ err' = Nil /\ rerun' = FALSE
    /\ values' = <<>> /\ slice' = NilSlice /\ errs' = <<>>
    /\ UNCHANGED <<order, backing, unknown, concVars, selVars>>

-----------------------------------------------------------------------------
(* Specification of the interpolation engine over a populated registry *)

Init ==
    /\ \E reg \in Registries : order = reg.order /\ backing = reg.backing
    /\ unknown \in {PassThrough, ErrorOnUnknown}
    /\ pc = "idle"
    /\ NoCall
    /\ Sequential

Next ==
    \/ ResolveString
    \/ resolveStringDepth
    \/ ResolveStringAgain
    \/ Pass
    \/ MaxDepthReached
    \/ ResolveVariableCall
    \/ Return

Spec == Init /\ [][Next]_vars

-----------------------------------------------------------------------------
(* Specification of the registry: NewRegistry(), then Register,            *)
(* SetUnknownSchemePolicy and ResolveVariable calls                        *)

InitRegistry ==
    /\ order = <<>>
    /\ backing = <<>>
    /\ unknown = PassThrough
    /\ pc = "idle"
    /\ NoCall
    /\ Sequential

NextRegistry ==
    \/ Register
    \/ SetUnknownSchemePolicy
    \/ ResolveVariableCall
    \/ Return

SpecRegistry == InitRegistry /\ [][NextRegistry]_vars

-----------------------------------------------------------------------------
(* Specification of batch resolution: ResolveSlice and                     *)
(* ResolveSliceBestEffort over a populated registry                        *)

MaxSlice == 3

\* the registries of the batch calls: the stub and the failing resolver of
\* TestResolveSlice, and a constant resolver beside a ResolverFunc that
\* returns a value together with its error
SliceRegistries ==
    { [order |-> <<SchemeA, SchemeB>>,
       backing |-> (SchemeA :> [kind |-> "echo", out |-> <<"s", "t", "u", "b", ":">>]
                 @@ SchemeB :> [kind |-> "fail", out |-> <<>>])],
      [order |-> <<SchemeA, SchemeB>>,
       backing |-> (SchemeA :> [kind |-> "const", out |-> OK]
                 @@ SchemeB :> [kind |-> "partial", out |-> <<"p">>])] }

\* the elements of the slices: a literal, an unknown scheme, a resolved and
\* a failing element
SliceElems == { <<"x">>, <<"c", ":", "x">>, <<"a", ":", "b">>, <<"b", ":", "x">> }

SliceArgs == UNION { [1..n -> SliceElems] : n \in 0..MaxSlice }

\* make([]string, n)
MakeStrings(n) == [k \in 1..n |-> <<>>]

\* the check `e != nil` left out
IsErrNever(e) == FALSE

\* the check `e != nil`
IsErr(e) == e # Nil

\* the loop of ResolveSlice from index i on
RECURSIVE ResolveSliceFrom(_, _, _, _, _)
ResolveSliceFrom(vals, i, o, calls, inv) ==
    IF i = Len(vals)
    THEN [out |-> [nil |-> FALSE, elems |-> o], err |-> Nil, calls |-> calls, inv |-> inv]
    ELSE LET v  == vals[i + 1]
             rv == ResolveVariable(v)
             c  == Append(calls, [tok |-> v, pos |-> i, pass |-> 0])
         IN  IF IsErr(rv.err)
             THEN [out |-> NilSlice,
                   err |-> Errorf("resolve slice index %d (%q): %w", v, i, rv.err),
                   calls |-> c, inv |-> inv \o rv.inv]
             ELSE ResolveSliceFrom(vals, i + 1, [o EXCEPT ![i + 1] = rv.val], c, inv \o rv.inv)

\* errs after the `if err != nil { errs = append(...) }` of index i
BestEffortErrs(es, i, v, e) ==
    IF e # Nil THEN Append(es, Errorf("index %d (%q): %w", v, i, e)) ELSE es

\* the loop of ResolveSliceBestEffort from index i on
RECURSIVE ResolveSliceBestEffortFrom(_, _, _, _, _, _)
ResolveSliceBestEffortFrom(vals, i, o, es, calls, inv) ==
    IF i = Len(vals)
    THEN [out |-> [nil |-> FALSE, elems |-> o], errs |-> es, calls |-> calls, inv |-> inv]
    ELSE LET v  == vals[i + 1]
             rv == ResolveVariable(v)
         IN  ResolveSliceBestEffortFrom(vals, i + 1, [o EXCEPT ![i + 1] = rv.val],
                                        BestEffortErrs(es, i, v, rv.err),
                                        Append(calls, [tok |-> v, pos |-> i, pass |-> 0]),
                                        inv \o rv.inv)

\* Registry.ResolveSlice(values)
ResolveSlice ==
    /\ pc = "idle"
    /\ \E vals \in SliceArgs :
        LET r == ResolveSliceFrom(vals, 0, MakeStrings(Len(vals)), <<>>, <<>>) IN
        /\ pc' = "done"
        /\ op' = "ResolveSlice"
        /\ s' = vals
        /\ values' = vals
        /\ slice' = r.out
        /\ err' = r.err
        /\ log' = r.calls
        /\ invoked' = r.inv
    /\ UNCHANGED <<order, backing, unknown, maxDepth, out, pass, res, rerun, errs, concVars, selVars>>

\* Registry.ResolveSliceBestEffort(values)
ResolveSliceBestEffort ==
    /\ pc = "idle"
    /\ \E vals \in SliceArgs :
        LET r == ResolveSliceBestEffortFrom(vals, 0, MakeStrings(Len(vals)), <<>>, <<>>, <<>>) IN
        /\ pc' = "done"
        /\ op' = "ResolveSliceBestEffort"
        /\ s' = vals
        /\ values' = vals
        /\ slice' = r.out
        /\ errs' = r.errs
        /\ log' = r.calls
        /\ invoked' = r.inv
    /\ UNCHANGED <<order, backing, unknown, maxDepth, out, pass, res, err, rerun, concVars, selVars>>

InitSlice ==
    /\ \E reg \in SliceRegistries : order = reg.order /\ backing = reg.backing
    /\ unknown \in {PassThrough, ErrorOnUnknown}
    /\ pc = "idle"
    /\ NoCall
    /\ Sequential

NextSlice ==
    \/ ResolveSlice
    \/ ResolveSliceBestEffort
    \/ Return

SpecSlice == InitSlice /\ [][NextSlice]_vars

-----------------------------------------------------------------------------
(* Specification of concurrent registration: NumGoroutines goroutines call *)
(* Register on one NewRegistry(); each statement of Register is a step.    *)

NumGoroutines == 2

MaxRegisterCalls == 3

G == 1..NumGoroutines

\* the arguments of the concurrent Register calls
GoSchemes == { SchemeA, SchemeB, <<"a">> }

GoResolvers == { [kind |-> "const", out |-> OK], [kind |-> "fail", out |-> <<>>] }

IdleG == [pc |-> "idle", scheme |-> <<>>, res |-> [kind |-> "none", out |-> <<>>]]

\* the goroutines inside the critical section of Register
InRegister == { i \in DOMAIN g : g[i].pc \in {"exists", "store", "unlock"} }

\* the calls that have been started and will take the lock
Started == Len(hist) + Cardinality({ i \in DOMAIN g : g[i].pc = "lock" })

\* mu.Lock() returns without waiting: an unguarded critical section
CanLockUnguarded(m) == TRUE

\* mu.Lock() returns: no writer and no reader holds the mutex
CanLock(m) == m.w = 0 /\ m.r = {}

\* goroutine i calls Register(scheme, res): the argument check
GoRegister(i) ==
    /\ g[i].pc = "idle"
    /\ Started < MaxRegisterCalls
    /\ \E scheme \in GoSchemes, r \in GoResolvers :
        g' = [g EXCEPT ![i] = [pc |-> IF ValidScheme(scheme) THEN "lock" ELSE "panicked",
                               scheme |-> scheme, res |-> r]]
    /\ UNCHANGED <<order, backing, unknown, mu, hist>>

\* r.mu.Lock()
GoLock(i) ==
    /\ g[i].pc = "lock"
    /\ CanLock(mu)
    /\ mu' = [mu EXCEPT !.w = i]
    /\ hist' = Append(hist, [scheme |-> g[i].scheme, res |-> g[i].res, by |-> i])
    /\ g' = [g EXCEPT ![i].pc = "exists"]
    /\ UNCHANGED <<order, backing, unknown>>

\* if _, exists := r.backing[scheme]; !exists { r.order = append(r.order, scheme) }
GoAppend(i) ==
    /\ g[i].pc = "exists"
    /\ order' = RegisterOrder(order, backing, g[i].scheme)
    /\ g' = [g EXCEPT ![i].pc = "store"]
    /\ UNCHANGED <<backing, unknown, mu, hist>>

\* r.backing[scheme] = res
GoStore(i) ==
    /\ g[i].pc = "store"
    /\ backing' = RegisterBacking(backing, g[i].scheme, g[i].res)
    /\ g' = [g EXCEPT ![i].pc = "unlock"]
    /\ UNCHANGED <<order, unknown, mu, hist>>

\* the deferred r.mu.Unlock(), and the return
GoUnlock(i) ==
    /\ g[i].pc = "unlock"
    /\ mu' = [mu EXCEPT !.w = 0]
    /\ g' = [g EXCEPT ![i] = IdleG]
    /\ UNCHANGED <<order, backing, unknown, hist>>

\* the panic of the argument check ends the call
GoPanic(i) ==
    /\ g[i].pc = "panicked"
    /\ g' = [g EXCEPT ![i] = IdleG]
    /\ UNCHANGED <<order, backing, unknown, mu, hist>>

InitConcurrent ==
    /\ order = <<>>
    /\ backing = <<>>
    /\ unknown = PassThrough
    /\ pc = "idle"
    /\ NoCall
    /\ mu = Unlocked
    /\ g = [i \in G |-> IdleG]
    /\ hist = <<>>
    /\ sel = NoSel

NextConcurrent ==
    /\ \E i \in G :
        \/ GoRegister(i)
        \/ GoLock(i)
        \/ GoAppend(i)
        \/ GoStore(i)
        \/ GoUnlock(i)
        \/ GoPanic(i)
    /\ UNCHANGED <<pc, op, s, maxDepth, out, pass, log, invoked, res, err, rerun, sliceVars, selVars>>

SpecConcurrent == InitConcurrent /\ [][NextConcurrent]_vars

-----------------------------------------------------------------------------
(* Specification of the registry lock: goroutines call Register,           *)
(* SetUnknownSchemePolicy, ResolveVariable and ResolveString on one        *)
(* registry, and resolvers call back into it.  g[i] is the call stack of   *)
(* goroutine i, the innermost call last.  mu.w is the goroutine that has   *)
(* called mu.Lock() and not yet mu.Unlock(): from that call on RLock       *)
(* blocks, and Lock returns when the readers have left.  mu.r holds a      *)
(* pair <<goroutine, stack depth>> for every RLock not yet released.       *)

MaxCalls == 2

SchemeR == <<"r", ":">>
SchemeV == <<"v", ":">>

\* no resolver, no result
NoRes == [kind |-> "none", out |-> <<>>]
NoRet == [val |-> <<>>, err |-> Nil]

\* a resolver whose Resolve calls Register(out, ConstOK) on the registry and
\* returns OK, and one whose Resolve returns ResolveVariable(out + v)
ConstOK == [kind |-> "const", out |-> OK]
Reentrant(r) == r.kind \in { "register", "resolve" }

\* the stack frame of a call
Frame(name, at, arg) ==
    [op |-> name, pc |-> at, arg |-> arg, res |-> NoRes, rest |-> <<>>, p |-> PassThrough,
     out |-> <<>>, pos |-> 0, b |-> <<>>, expanded |-> FALSE, pass |-> 0, ret |-> NoRet]

\* the calls the goroutines make: a Register, one with a scheme that lacks
\* its colon, a change of policy, values resolved by a resolver that
\* registers and by none, and a string whose token goes to a resolver that
\* resolves
CallArgs ==
    { [Frame("Register", "lock", SchemeB) EXCEPT !.res = [kind |-> "fail", out |-> <<>>]],
      [Frame("Register", "lock", <<"a">>) EXCEPT !.res = ConstOK],
      [Frame("SetUnknownSchemePolicy", "lock", <<>>) EXCEPT !.p = ErrorOnUnknown],
      Frame("ResolveVariable", "rlock", <<"r", ":", "x">>),
      Frame("ResolveVariable", "rlock", <<"z", ":", "x">>),
      [Frame("ResolveString", "scan", <<"$", "{", "v", ":", "x", "}">>)
          EXCEPT !.out = <<"$", "{", "v", ":", "x", "}">>] }

\* the frame of a Register call after its argument check
Checked(f) ==
    IF f.op = "Register" /\ ~ValidScheme(f.arg) THEN [f EXCEPT !.pc = "panic"] ELSE f

Depth(i) == Len(g[i])

Top(i) == g[i][Len(g[i])]

SetTop(i, f) == [g EXCEPT ![i][Len(g[i])] = f]

Push(i, f, callee) == [g EXCEPT ![i] = Append(SubSeq(g[i], 1, Len(g[i]) - 1), f) \o <<callee>>]

At_(i, name, at) == g[i] # <<>> /\ Top(i).op = name /\ Top(i).pc = at

\* the lock of goroutine i's innermost call among the read locks
ReadLock(i) == <<i, Depth(i)>>

\* the read lock kept while the resolver runs
HeldDuringResolve(m, id) == m

\* r.mu.RUnlock()
Released(m, id) == [m EXCEPT !.r = m.r \ {id}]

\* the scan of resolveStringDepth from position p on, up to the next token:
\* the token and the position behind it, the end of the pass, or an error
RECURSIVE ScanToToken(_, _, _)
ScanToToken(o, p, b) ==
    IF p >= Len(o) THEN [kind |-> "end", b |-> b, tok |-> <<>>, next |-> p, err |-> Nil]
    ELSE
    LET dollarRel == IndexByte(Sub(o, p, Len(o)), "$") IN
    IF dollarRel < 0
    THEN [kind |-> "end", b |-> b \o Sub(o, p, Len(o)), tok |-> <<>>, next |-> Len(o), err |-> Nil]
    ELSE
    LET dollar == p + dollarRel IN
    IF isEscapedDollarBrace(o, p, dollar)
    THEN ScanToToken(o, dollar + 2, b \o Sub(o, p, dollar - 1) \o <<"$", "{">>)
    ELSE IF ~isTokenStart(o, dollar)
    THEN ScanToToken(o, dollar + 1, b \o Sub(o, p, dollar) \o <<"$">>)
    ELSE
    LET tb == tokenBounds(o, dollar) IN
    IF tb.err # Nil
    THEN [kind |-> "err", b |-> <<>>, tok |-> <<>>, next |-> p, err |-> tb.err]
    ELSE [kind |-> "token", b |-> b \o Sub(o, p, dollar), tok |-> Sub(o, tb.start, tb.end),
          next |-> tb.end + 1, err |-> Nil]

\* the caller's frame when the call it made returns ret
Resume(caller, callee) ==
    CASE caller.op = "ResolveVariable" /\ caller.res.kind = "register" ->
            [caller EXCEPT !.pc = "return", !.ret = [val |-> OK, err |-> Nil]]
      [] caller.op = "ResolveVariable" /\ caller.res.kind = "resolve" ->
            [caller EXCEPT !.pc = "return", !.ret = callee.ret]
      [] caller.op = "ResolveString" ->
            IF callee.ret.err # Nil
            THEN [caller EXCEPT !.pc = "return",
                                !.ret = [val |-> <<>>,
                                         err |-> WrapResolveError(callee.arg, callee.ret.err)]]
            ELSE [caller EXCEPT !.pc = "scan", !.b = caller.b \o callee.ret.val,
                                !.expanded = TRUE]

\* goroutine i calls the registry; Register checks its argument
Call(i) ==
    /\ g[i] = <<>>
    /\ Len(hist) < MaxCalls
    /\ \E f \in CallArgs :
        g' = [g EXCEPT ![i] = <<Checked(f)>>]
    /\ hist' = Append(hist, [scheme |-> <<>>, res |-> NoRes, by |-> 0])
    /\ UNCHANGED <<order, backing, unknown, mu>>

\* the panic of the argument check unwinds the stack of the goroutine
RegisterPanic(i) ==
    /\ At_(i, "Register", "panic")
    /\ g' = [g EXCEPT ![i] = <<>>]
    /\ UNCHANGED <<order, backing, unknown, mu, hist>>

\* r.mu.Lock(), first half: the writer announces itself
Lock(i) ==
    /\ g[i] # <<>>
    /\ Top(i).op \in { "Register", "SetUnknownSchemePolicy" }
    /\ Top(i).pc = "lock"
    /\ mu.w = 0
    /\ mu' = [mu EXCEPT !.w = i]
    /\ g' = SetTop(i, [Top(i) EXCEPT !.pc = "wait"])
    /\ UNCHANGED <<order, backing, unknown, hist>>

\* r.mu.Lock(), second half: the readers have left
Locked(i) ==
    /\ g[i] # <<>>
    /\ Top(i).pc = "wait"
    /\ mu.r = {}
    /\ g' = SetTop(i, [Top(i) EXCEPT !.pc = IF Top(i).op = "Register" THEN "exists" ELSE "set"])
    /\ UNCHANGED <<order, backing, unknown, mu, hist>>

\* Register under the lock: the append to r.order and r.backing[scheme] = res
RegisterWrite(i) ==
    /\ At_(i, "Register", "exists")
    /\ order' = RegisterOrder(order, backing, Top(i).arg)
    /\ backing' = RegisterBacking(backing, Top(i).arg, Top(i).res)
    /\ g' = SetTop(i, [Top(i) EXCEPT !.pc = "unlock"])
    /\ UNCHANGED <<unknown, mu, hist>>

\* SetUnknownSchemePolicy: r.unknown = p
PolicySet(i) ==
    /\ At_(i, "SetUnknownSchemePolicy", "set")
    /\ unknown' = Top(i).p
    /\ g' = SetTop(i, [Top(i) EXCEPT !.pc = "unlock"])
    /\ UNCHANGED <<order, backing, mu, hist>>

\* r.mu.Unlock()
Unlock(i) ==
    /\ g[i] # <<>>
    /\ Top(i).pc = "unlock"
    /\ mu' = [mu EXCEPT !.w = 0]
    /\ g' = SetTop(i, [Top(i) EXCEPT !.pc = "return"])
    /\ UNCHANGED <<order, backing, unknown, hist>>

\* ResolveVariable: r.mu.RLock(), the range loop over r.order, and
\* `res := r.backing[scheme]` or `p := r.unknown`
RLock(i) ==
    /\ At_(i, "ResolveVariable", "rlock")
    /\ mu.w = 0
    /\ mu' = [mu EXCEPT !.r = mu.r \cup {ReadLock(i)}]
    /\ LET k == FirstMatch(Top(i).arg) IN
       g' = SetTop(i, IF k # 0
                      THEN [Top(i) EXCEPT !.pc = "runlock",
                                          !.res = backing[order[k]],
                                          !.rest = CutPrefix(Top(i).arg, order[k])]
                      ELSE [Top(i) EXCEPT !.pc = "runlock", !.p = unknown])
    /\ UNCHANGED <<order, backing, unknown, hist>>

\* ResolveVariable: r.mu.RUnlock(), in front of res.Resolve(rest) and of the
\* policy check
RUnlock(i) ==
    /\ At_(i, "ResolveVariable", "runlock")
    /\ mu' = Released(mu, ReadLock(i))
    /\ g' = SetTop(i, [Top(i) EXCEPT !.pc = IF Top(i).res = NoRes THEN "policy" ELSE "resolve"])
    /\ UNCHANGED <<order, backing, unknown, hist>>

\* ResolveVariable: `return res.Resolve(rest)` for a resolver that does not
\* call the registry
ResolveLeaf(i) ==
    /\ At_(i, "ResolveVariable", "resolve")
    /\ ~Reentrant(Top(i).res)
    /\ LET r == Resolve(Top(i).res, Top(i).rest) IN
       g' = SetTop(i, [Top(i) EXCEPT !.pc = "return", !.ret = [val |-> r.val, err |-> r.err]])
    /\ UNCHANGED <<order, backing, unknown, mu, hist>>

\* ResolveVariable: res.Resolve(rest) calls Register or ResolveVariable
ResolveReentrant(i) ==
    /\ At_(i, "ResolveVariable", "resolve")
    /\ Reentrant(Top(i).res)
    /\ g' = Push(i, [Top(i) EXCEPT !.pc = "resumed"],
                 IF Top(i).res.kind = "register"
                 THEN Checked([Frame("Register", "lock", Top(i).res.out) EXCEPT !.res = ConstOK])
                 ELSE Frame("ResolveVariable", "rlock", Top(i).res.out \o Top(i).rest))
    /\ UNCHANGED <<order, backing, unknown, mu, hist>>

\* ResolveVariable: the policy check after the loop
Policy(i) ==
    /\ At_(i, "ResolveVariable", "policy")
    /\ g' = SetTop(i, [Top(i) EXCEPT
            !.pc = "return",
            !.ret = IF Top(i).p = ErrorOnUnknown /\ Contains(Top(i).arg, <<":">>)
                    THEN [val |-> <<>>, err |-> Errorf("%w: %q", Top(i).arg, 0, ErrNotFound)]
                    ELSE [val |-> Top(i).arg, err |-> Nil]])
    /\ UNCHANGED <<order, backing, unknown, mu, hist>>

\* resolveStringDepth: the scan up to the next token and the call of
\* ResolveVariable for it, or the end of the pass
Scan(i) ==
    /\ At_(i, "ResolveString", "scan")
    /\ LET f  == Top(i)
           st == ScanToToken(f.out, f.pos, f.b)
       IN  g' = CASE st.kind = "token" ->
                       Push(i, [f EXCEPT !.pc = "resumed", !.b = st.b, !.pos = st.next],
                            Frame("ResolveVariable", "rlock", st.tok))
                  [] st.kind = "err" ->
                       SetTop(i, [f EXCEPT !.pc = "return", !.ret = [val |-> <<>>, err |-> st.err]])
                  [] st.kind = "end" /\ ~f.expanded ->
                       SetTop(i, [f EXCEPT !.pc = "return", !.ret = [val |-> st.b, err |-> Nil]])
                  [] st.kind = "end" /\ f.expanded /\ MorePasses(f.pass + 1, PublicMaxDepth) ->
                       SetTop(i, [f EXCEPT !.out = st.b, !.pos = 0, !.b = <<>>,
                                           !.expanded = FALSE, !.pass = f.pass + 1])
                  [] OTHER ->
                       SetTop(i, [f EXCEPT
                           !.pc = "return",
                           !.ret = IF DepthExceeded(st.b)
                                   THEN [val |-> <<>>,
                                         err |-> Errorf("%w: interpolation depth exceeded",
                                                        <<>>, 0, ErrBadPath)]
                                   ELSE [val |-> st.b, err |-> Nil]])
    /\ UNCHANGED <<order, backing, unknown, mu, hist>>

\* the innermost call of goroutine i returns to its caller
Returns(i) ==
    /\ g[i] # <<>>
    /\ Top(i).pc = "return"
    /\ g' = [g EXCEPT ![i] =
                IF Len(g[i]) = 1 THEN <<>>
                ELSE Append(SubSeq(g[i], 1, Len(g[i]) - 2), Resume(g[i][Len(g[i]) - 1], Top(i)))]
    /\ UNCHANGED <<order, backing, unknown, mu, hist>>

\* the sequential caller and the selector are not involved
Aside ==
    UNCHANGED <<pc, op, s, maxDepth, out, pass, log, invoked, res, err, rerun, sliceVars, selVars>>

\* one step of goroutine i
Step(i) ==
    \/ Call(i) /\ Aside
    \/ RegisterPanic(i) /\ Aside
    \/ Lock(i) /\ Aside
    \/ Locked(i) /\ Aside
    \/ RegisterWrite(i) /\ Aside
    \/ PolicySet(i) /\ Aside
    \/ Unlock(i) /\ Aside
    \/ RLock(i) /\ Aside
    \/ RUnlock(i) /\ Aside
    \/ ResolveLeaf(i) /\ Aside
    \/ ResolveReentrant(i) /\ Aside
    \/ Policy(i) /\ Aside
    \/ Scan(i) /\ Aside
    \/ Returns(i) /\ Aside

\* a registry holding a resolver that registers b:, one that resolves through
\* a:, and a plain one
InitLocking ==
    /\ order = <<SchemeA, SchemeR, SchemeV>>
    /\ backing = (SchemeA :> ConstOK
               @@ SchemeR :> [kind |-> "register", out |-> SchemeB]
               @@ SchemeV :> [kind |-> "resolve", out |-> SchemeA])
    /\ unknown = PassThrough
    /\ pc = "idle"
    /\ NoCall
    /\ mu = Unlocked
    /\ g = [i \in G |-> <<>>]
    /\ hist = <<>>
    /\ sel = NoSel

NextLocking == \E i \in G : Step(i)

\* a step of a goroutine that is inside a call
Running == \E i \in G : g[i] # <<>> /\ Step(i)

\* the Go scheduler runs a goroutine that can run, and a goroutine blocked in
\* Lock or RLock can run as soon as the mutex allows it; nothing obliges a
\* caller to make a call
SpecLocking == InitLocking /\ [][NextLocking]_vars /\ WF_vars(Running)

-----------------------------------------------------------------------------
(* The selector: ParsePath                                                 *)

\* the final `out = append(out, string(buf))` skipped for an empty buffer
FlushNonEmpty(o, buf) == IF buf = <<>> THEN o ELSE Append(o, buf)

\* the final `out = append(out, string(buf))`
Flush(o, buf) == Append(o, buf)

\* depth after ']' without the `if depth > 0` guard
CloseDepthUnguarded(depth) == depth - 1

\* depth after ']': `if depth > 0 { depth-- }`
CloseDepth(depth) == IF depth > 0 THEN depth - 1 ELSE depth

\* the '.' inside brackets left out of the token
DropDot(buf, r) == buf

\* `buf = append(buf, r)` for a '.' inside brackets
KeepDot(buf, r) == Append(buf, r)

\* the loop of ParsePath from position i on
RECURSIVE ParsePathFrom(_, _, _, _, _)
ParsePathFrom(str, i, o, buf, depth) ==
    IF i = Len(str) THEN Flush(o, buf)
    ELSE LET r == At(str, i) IN
         CASE r = "[" -> ParsePathFrom(str, i + 1, o, Append(buf, r), depth + 1)
           [] r = "]" -> ParsePathFrom(str, i + 1, o, Append(buf, r), CloseDepth(depth))
           [] r = "." -> IF depth = 0
                         THEN ParsePathFrom(str, i + 1, Append(o, buf), <<>>, depth)
                         ELSE ParsePathFrom(str, i + 1, o, KeepDot(buf, r), depth)
           [] OTHER   -> ParsePathFrom(str, i + 1, o, Append(buf, r), depth)

\* ParsePath(s)
ParsePath(str) == ParsePathFrom(str, 0, <<>>, <<>>, 0)

-----------------------------------------------------------------------------
(* The selector: coerce.  strconv.Atoi, strconv.ParseFloat,                *)
(* strings.ToLower and strconv.ParseBool work on the characters of their   *)
(* argument.  An int is held as its decimal text (optional '-', no leading *)
(* zeros), which is also its fmt.Sprint rendering; a float64 is held as    *)
(* sign, significant digits (no leading or trailing zeros) and decimal     *)
(* exponent of the last digit, or as +Inf, -Inf, NaN.  Distinct decimals   *)
(* of at most 15 significant digits are distinct float64 values.           *)

Digits == <<"0", "1", "2", "3", "4", "5", "6", "7", "8", "9">>

IsDigit(c) == \E k \in 1..10 : Digits[k] = c

DigitVal(c) == (CHOOSE k \in 1..10 : Digits[k] = c) - 1

AllDigits(str) == \A i \in 1..Len(str) : IsDigit(str[i])

\* str without its leading zeros
RECURSIVE StripZeros(_)
StripZeros(str) ==
    IF str # <<>> /\ Head(str) = "0" THEN StripZeros(Tail(str)) ELSE str

\* the number of zeros str ends with
RECURSIVE TrailingZeros(_)
TrailingZeros(str) ==
    IF str # <<>> /\ str[Len(str)] = "0"
    THEN 1 + TrailingZeros(SubSeq(str, 1, Len(str) - 1)) ELSE 0

\* the number a short digit string denotes
RECURSIVE ToNat(_)
ToNat(str) ==
    IF str = <<>> THEN 0
    ELSE 10 * ToNat(SubSeq(str, 1, Len(str) - 1)) + DigitVal(str[Len(str)])

\* the decimal text of a natural number
RECURSIVE Itoa(_)
Itoa(n) == IF n < 10 THEN <<Digits[n + 1]>> ELSE Append(Itoa(n \div 10), Digits[(n % 10) + 1])

\* a <= b for digit strings of one length
RECURSIVE DigitsLeq(_, _)
DigitsLeq(a, b) ==
    \/ a = <<>>
    \/ DigitVal(Head(a)) < DigitVal(Head(b))
    \/ Head(a) = Head(b) /\ DigitsLeq(Tail(a), Tail(b))

\* math.MaxInt64 and the magnitude of math.MinInt64 (int has 64 bits)
MaxInt64 == <<"9", "2", "2", "3", "3", "7", "2", "0", "3", "6", "8", "5", "4", "7", "7", "5", "8", "0", "7">>

MinInt64Mag == <<"9", "2", "2", "3", "3", "7", "2", "0", "3", "6", "8", "5", "4", "7", "7", "5", "8", "0", "8">>

\* the magnitude mag (no leading zeros) with its sign fits an int
FitsInt(neg, mag) ==
    \/ Len(mag) < Len(MaxInt64)
    \/ Len(mag) = Len(MaxInt64) /\ DigitsLeq(mag, IF neg THEN MinInt64Mag ELSE MaxInt64)

HasSign(str) == str # <<>> /\ Head(str) \in {"+", "-"}

\* strconv.Atoi(s): optional sign, then digits only, within the range of int
Atoi(str) ==
    LET neg  == HasSign(str) /\ Head(str) = "-"
        body == IF HasSign(str) THEN Tail(str) ELSE str
        mag  == StripZeros(body)
    IN  IF body = <<>> \/ ~AllDigits(body) \/ ~FitsInt(neg, mag)
        THEN [ok |-> FALSE, v |-> <<>>]
        ELSE [ok |-> TRUE,
              v |-> IF mag = <<>> THEN <<"0">> ELSE IF neg THEN <<"-">> \o mag ELSE mag]

UpperCase == <<"A", "B", "C", "D", "E", "F", "G", "H", "I", "J", "K", "L", "M", "N", "O", "P", "Q", "R", "S", "T", "U", "V", "W", "X", "Y", "Z">>

LowerCase == <<"a", "b", "c", "d", "e", "f", "g", "h", "i", "j", "k", "l", "m", "n", "o", "p", "q", "r", "s", "t", "u", "v", "w", "x", "y", "z">>

\* strings.ToLower(s)
ToLower(str) ==
    [i \in 1..Len(str) |->
        IF \E k \in 1..26 : UpperCase[k] = str[i]
        THEN LowerCase[CHOOSE k \in 1..26 : UpperCase[k] = str[i]]
        ELSE str[i]]

FloatZero(neg) == [special |-> "", neg |-> neg, sig |-> <<>>, exp |-> 0]

\* the float64 of a mantissa intpart.frac and a decimal exponent e
Decimal(neg, intpart, frac, e) ==
    LET all == StripZeros(intpart \o frac)
        z   == TrailingZeros(all)
    IN  IF all = <<>> THEN FloatZero(neg)
        ELSE [special |-> "", neg |-> neg, sig |-> SubSeq(all, 1, Len(all) - z),
              exp |-> e - Len(frac) + z]

\* the position of the first 'e' or 'E' of str, 0 when there is none
ExpMark(str) ==
    IF \E i \in 1..Len(str) : str[i] \in {"e", "E"}
    THEN CHOOSE i \in 1..Len(str) :
            str[i] \in {"e", "E"} /\ \A j \in 1..(i - 1) : str[j] \notin {"e", "E"}
    ELSE 0

\* the largest decimal exponent of a float64
MaxFloatExp == 308

\* strconv.ParseFloat(s, 64): Inf, Infinity and NaN in any letter case, or
\* sign, digits with at most one '.', and an optional exponent
ParseFloat(str) ==
    LET neg   == HasSign(str) /\ Head(str) = "-"
        body  == IF HasSign(str) THEN Tail(str) ELSE str
        m     == ExpMark(body)
        mant  == IF m = 0 THEN body ELSE SubSeq(body, 1, m - 1)
        expo  == IF m = 0 THEN <<>> ELSE SubSeq(body, m + 1, Len(body))
        eneg  == HasSign(expo) /\ Head(expo) = "-"
        edig  == IF HasSign(expo) THEN Tail(expo) ELSE expo
        dots  == { i \in 1..Len(mant) : mant[i] = "." }
        dot   == IF dots = {} THEN Len(mant) + 1 ELSE CHOOSE i \in dots : TRUE
        ip    == SubSeq(mant, 1, dot - 1)
        fr    == SubSeq(mant, dot + 1, Len(mant))
        e     == IF eneg THEN 0 - ToNat(edig) ELSE ToNat(edig)
        f     == Decimal(neg, ip, fr, e)
    IN  IF ToLower(body) \in { <<"i", "n", "f">>, <<"i", "n", "f", "i", "n", "i", "t", "y">> }
        THEN [ok |-> TRUE, v |-> [special |-> "inf", neg |-> neg, sig |-> <<>>, exp |-> 0]]
        ELSE IF ToLower(str) = <<"n", "a", "n">>
        THEN [ok |-> TRUE, v |-> [special |-> "nan", neg |-> FALSE, sig |-> <<>>, exp |-> 0]]
        ELSE IF \/ Cardinality(dots) > 1
                \/ ~AllDigits(ip \o fr)
                \/ ip \o fr = <<>>
                \/ m # 0 /\ (edig = <<>> \/ ~AllDigits(edig))
        THEN [ok |-> FALSE, v |-> FloatZero(FALSE)]
        ELSE IF Len(edig) > 3 \/ (f.sig # <<>> /\ Len(f.sig) - 1 + f.exp > MaxFloatExp)
        THEN [ok |-> FALSE, v |-> FloatZero(FALSE)]
        ELSE [ok |-> TRUE, v |-> f]

\* strconv.ParseBool(s)
ParseBool(str) ==
    IF str \in { <<"1">>, <<"t">>, <<"T">>, <<"T", "R", "U", "E">>, <<"t", "r", "u", "e">>, <<"T", "r", "u", "e">> }
    THEN [ok |-> TRUE, b |-> TRUE]
    ELSE IF str \in { <<"0">>, <<"f">>, <<"F">>, <<"F", "A", "L", "S", "E">>, <<"f", "a", "l", "s", "e">>, <<"F", "a", "l", "s", "e">> }
    THEN [ok |-> TRUE, b |-> FALSE]
    ELSE [ok |-> FALSE, b |-> FALSE]

\* the values of the tree and of coerce (Go's any): the dynamic type t and,
\* by type, the text of a string or int, the bool, the float64, or the
\* entries of a map or slice
Value(t, txt, b, f, kids) == [t |-> t, txt |-> txt, b |-> b, f |-> f, kids |-> kids]

IntV(v) == Value("int", v, FALSE, FloatZero(FALSE), <<>>)

FloatV(f) == Value("float", <<>>, FALSE, f, <<>>)

BoolV(b) == Value("bool", <<>>, b, FloatZero(FALSE), <<>>)

StrV(str) == Value("string", str, FALSE, FloatZero(FALSE), <<>>)

\* coerce with the boolean match in front of the numeric ones
coerceBoolFirst(val) ==
    IF ParseBool(val).ok THEN BoolV(ParseBool(val).b)
    ELSE IF Atoi(val).ok THEN IntV(Atoi(val).v)
    ELSE IF ParseFloat(val).ok THEN FloatV(ParseFloat(val).v)
    ELSE StrV(val)

\* coerce(val)
coerce(val) ==
    IF Atoi(val).ok THEN IntV(Atoi(val).v)
    ELSE IF ParseFloat(val).ok THEN FloatV(ParseFloat(val).v)
    ELSE IF ToLower(val) \in { <<"t", "r", "u", "e">>, <<"f", "a", "l", "s", "e">> }
    THEN BoolV(ParseBool(val).b)
    ELSE StrV(val)

-----------------------------------------------------------------------------
(* The selector: equalCoerced and fmt.Sprint *)

Int64V(v) == Value("int64", v, FALSE, FloatZero(FALSE), <<>>)

\* nil
NullV == Value("nil", <<>>, FALSE, FloatZero(FALSE), <<>>)

\* map[string]any: kids maps each key to its value
MapV(kids) == Value("map", <<>>, FALSE, FloatZero(FALSE), kids)

\* []any: kids is the sequence of the elements
SeqV(kids) == Value("seq", <<>>, FALSE, FloatZero(FALSE), kids)

\* the printable ASCII characters in byte order (the double quote, the
\* backslash and the backquote, which no map key of the model holds, left out)
Ascii ==
    <<" ", "!", "#", "$", "%", "&", "'", "(", ")", "*", "+", ",", "-", ".", "/",
      "0", "1", "2", "3", "4", "5", "6", "7", "8", "9", ":", ";", "<", "=", ">", "?",
      "@", "A", "B", "C", "D", "E", "F", "G", "H", "I", "J", "K", "L", "M", "N", "O",
      "P", "Q", "R", "S", "T", "U", "V", "W", "X", "Y", "Z", "[", "]", "^", "_",
      "a", "b", "c", "d", "e", "f", "g", "h", "i", "j", "k", "l", "m", "n", "o",
      "p", "q", "r", "s", "t", "u", "v", "w", "x", "y", "z", "{", "|", "}", "~">>

CharRank(c) == CHOOSE k \in 1..Len(Ascii) : Ascii[k] = c

\* a < b for Go strings
RECURSIVE StrLess(_, _)
StrLess(a, b) ==
    IF b = <<>> THEN FALSE
    ELSE IF a = <<>> THEN TRUE
    ELSE IF Head(a) = Head(b) THEN StrLess(Tail(a), Tail(b))
    ELSE CharRank(Head(a)) < CharRank(Head(b))

\* the keys of a set in increasing order
RECURSIVE SortedKeys(_)
SortedKeys(keys) ==
    IF keys = {} THEN <<>>
    ELSE LET least == CHOOSE k \in keys : \A j \in keys \ {k} : StrLess(k, j)
         IN  <<least>> \o SortedKeys(keys \ {least})

\* n zeros
Zeros(n) == [k \in 1..n |-> "0"]

\* strconv's %e form of the digits sig with decimal exponent x of the first digit
FmtE(sig, x) ==
    LET ax == IF x < 0 THEN 0 - x ELSE x IN
    <<Head(sig)>> \o (IF Len(sig) > 1 THEN <<".">> \o Tail(sig) ELSE <<>>)
    \o <<"e", IF x < 0 THEN "-" ELSE "+">>
    \o (IF ax < 10 THEN <<"0">> ELSE <<>>) \o Itoa(ax)

\* strconv's %f form of sig * 10^exp with the fewest digits
FmtF(sig, exp) ==
    IF exp >= 0 THEN sig \o Zeros(exp)
    ELSE IF Len(sig) + exp > 0
    THEN SubSeq(sig, 1, Len(sig) + exp) \o <<".">> \o SubSeq(sig, Len(sig) + exp + 1, Len(sig))
    ELSE <<"0", ".">> \o Zeros(0 - (Len(sig) + exp)) \o sig

\* the exponent from which the shortest %g form switches to %e
ShortestEprec == 6

\* fmt.Sprint of a float64: %g with the shortest precision
SprintFloat(f) ==
    IF f.special = "inf" THEN (IF f.neg THEN <<"-", "I", "n", "f">> ELSE <<"+", "I", "n", "f">>)
    ELSE IF f.special = "nan" THEN <<"N", "a", "N">>
    ELSE (IF f.neg THEN <<"-">> ELSE <<>>) \o
         (IF f.sig = <<>> THEN <<"0">>
          ELSE LET x == Len(f.sig) - 1 + f.exp IN
               IF x < -4 \/ x >= ShortestEprec THEN FmtE(f.sig, x) ELSE FmtF(f.sig, f.exp))

\* strings.Join(elems, sep)
RECURSIVE Join(_, _)
Join(elems, sep) ==
    IF elems = <<>> THEN <<>>
    ELSE IF Len(elems) = 1 THEN elems[1]
    ELSE elems[1] \o sep \o Join(Tail(elems), sep)

\* fmt.Sprint(v)
RECURSIVE Sprint(_)
Sprint(v) ==
    CASE v.t \in {"string", "int", "int64"} -> v.txt
      [] v.t = "bool"  -> IF v.b THEN <<"t", "r", "u", "e">> ELSE <<"f", "a", "l", "s", "e">>
      [] v.t = "float" -> SprintFloat(v.f)
      [] v.t = "nil"   -> <<"<", "n", "i", "l", ">">>
      [] v.t = "seq"   ->
            <<"[">> \o Join([k \in 1..Len(v.kids) |-> Sprint(v.kids[k])], <<" ">>) \o <<"]">>
      [] v.t = "map"   ->
            LET keys == SortedKeys(DOMAIN v.kids) IN
            <<"m", "a", "p", "[">> \o Join([k \in 1..Len(keys) |-> keys[k] \o <<":">> \o Sprint(v.kids[keys[k]])],
                          <<" ">>) \o <<"]">>

\* vv == w of two float64
FloatEq(a, b) ==
    /\ a.special # "nan" /\ b.special # "nan"
    /\ \/ a = b
       \/ a.special = "" /\ b.special = "" /\ a.sig = <<>> /\ b.sig = <<>>

\* the decimal text of the integer a float64 without fractional part denotes
IntOfFloat(f) ==
    IF f.sig = <<>> THEN <<"0">>
    ELSE (IF f.neg THEN <<"-">> ELSE <<>>) \o f.sig \o Zeros(f.exp)

\* int(vv) == w && float64(int(vv)) == vv, for vv within the range of int
FloatIsInt(f, w) ==
    /\ f.special = ""
    /\ f.exp >= 0
    /\ IntOfFloat(f) = w

\* equalCoerced without the float64 case of an int: the pair is compared as text
equalCoercedTextual(v, want) ==
    CASE want.t = "bool" /\ v.t = "bool"     -> v.b = want.b
      [] want.t = "int" /\ v.t = "int"       -> v.txt = want.txt
      [] want.t = "int" /\ v.t = "int64"     -> v.txt = want.txt
      [] want.t = "float" /\ v.t = "float"   -> FloatEq(v.f, want.f)
      [] want.t = "string" /\ v.t = "string" -> v.txt = want.txt
      [] OTHER -> Sprint(v) = Sprint(want)

\* equalCoerced without the final comparison of the renderings
equalCoercedNoFallback(v, want) ==
    CASE want.t = "bool" /\ v.t = "bool"     -> v.b = want.b
      [] want.t = "int" /\ v.t = "int"       -> v.txt = want.txt
      [] want.t = "int" /\ v.t = "int64"     -> v.txt = want.txt
      [] want.t = "int" /\ v.t = "float"     -> FloatIsInt(v.f, want.txt)
      [] want.t = "float" /\ v.t = "float"   -> FloatEq(v.f, want.f)
      [] want.t = "string" /\ v.t = "string" -> v.txt = want.txt
      [] OTHER -> FALSE

\* equalCoerced(v, want)
equalCoerced(v, want) ==
    CASE want.t = "bool" /\ v.t = "bool"     -> v.b = want.b
      [] want.t = "int" /\ v.t = "int"       -> v.txt = want.txt
      [] want.t = "int" /\ v.t = "int64"     -> v.txt = want.txt
      [] want.t = "int" /\ v.t = "float"     -> FloatIsInt(v.f, want.txt)
      [] want.t = "float" /\ v.t = "float"   -> FloatEq(v.f, want.f)
      [] want.t = "string" /\ v.t = "string" -> v.txt = want.txt
      [] OTHER -> Sprint(v) = Sprint(want)

-----------------------------------------------------------------------------
(* The selector: filter tokens and Navigate *)

\* isFilterToken(tok)
isFilterToken(tok) ==
    HasPrefix(tok, <<"[">>) /\ HasSuffix(tok, <<"]">>) /\ Contains(tok, <<"=">>)

\* strings.TrimPrefix(str, pre)
TrimPrefix(str, pre) == IF HasPrefix(str, pre) THEN Sub(str, Len(pre), Len(str)) ELSE str

\* strings.TrimSuffix(str, suf)
TrimSuffix(str, suf) == IF HasSuffix(str, suf) THEN Sub(str, 0, Len(str) - Len(suf)) ELSE str

\* strings.Trim(str, cutset): every leading and trailing character of cutset removed
RECURSIVE Trim(_, _)
Trim(str, cutset) ==
    IF str # <<>> /\ Head(str) \in cutset THEN Trim(Tail(str), cutset)
    ELSE IF str # <<>> /\ str[Len(str)] \in cutset THEN Trim(SubSeq(str, 1, Len(str) - 1), cutset)
    ELSE str

\* fmt.Errorf(format, str, num) without a wrapped error
NewError(format, str, num) == [is |-> {}, text |-> <<[fmt |-> format, str |-> str, num |-> num]>>]

\* the value of a filter token after the removal of its quotes
Unquote(val) ==
    IF \/ HasPrefix(val, <<"\"">>) /\ HasSuffix(val, <<"\"">>)
       \/ HasPrefix(val, <<"'">>) /\ HasSuffix(val, <<"'">>)
    THEN Trim(val, {"\"", "'"})
    ELSE val

\* parseFilterToken(tok)
parseFilterToken(tok) ==
    LET inner == TrimSuffix(TrimPrefix(tok, <<"[">>), <<"]">>)
        eq    == IndexByte(inner, "=")
        key   == TrimSpace(Sub(inner, 0, eq))
        val   == Unquote(TrimSpace(Sub(inner, eq + 1, Len(inner))))
    IN  IF eq = -1
        THEN [key |-> <<>>, val |-> <<>>, err |-> NewError("invalid filter token %q", tok, 0)]
        ELSE IF key = <<>>
        THEN [key |-> <<>>, val |-> <<>>, err |-> NewError("empty key in filter %q", tok, 0)]
        ELSE [key |-> key, val |-> val, err |-> Nil]

\* the filter loop without its break: the last matching element stays in current
RECURSIVE FilterScanNoBreak(_, _, _, _)
FilterScanNoBreak(elems, i, fk, want) ==
    IF i > Len(elems) THEN 0
    ELSE LET later == FilterScanNoBreak(elems, i + 1, fk, want) IN
         IF later # 0 THEN later
         ELSE IF elems[i].t = "map" /\ fk \in DOMAIN elems[i].kids
                 /\ equalCoerced(elems[i].kids[fk], want)
         THEN i ELSE 0

\* the filter loop of Navigate from element i on: the position of the
\* element `current` is set to, 0 when none is found
RECURSIVE FilterScan(_, _, _, _)
FilterScan(elems, i, fk, want) ==
    IF i > Len(elems) THEN 0
    ELSE IF elems[i].t # "map" THEN FilterScan(elems, i + 1, fk, want)
    ELSE IF fk \notin DOMAIN elems[i].kids THEN FilterScan(elems, i + 1, fk, want)
    ELSE IF equalCoerced(elems[i].kids[fk], want) THEN i
    ELSE FilterScan(elems, i + 1, fk, want)

\* the result of a failing Navigate: no value, the error, the segments examined
NavigateFails(e, n) == [val |-> NullV, err |-> e, n |-> n]

\* the digits of an array index that is out of bounds for every slice
MaxIndexDigits == 6

\* a successful Navigate whose result is the text of the value reached
NavigateDoneStringified(current, i) ==
    [val |-> StrV(Sprint(current)), err |-> Nil, n |-> i]

\* `return current, nil` after the last segment
NavigateDone(current, i) == [val |-> current, err |-> Nil, n |-> i]

\* a map lookup that interprets filter-shaped and index-shaped segments
\* instead of looking them up
HasKeyPlainOnly(kids, k) == k \in DOMAIN kids /\ ~isFilterToken(k) /\ ~Atoi(k).ok

\* `val, ok := curr[k]`: ok
HasKey(kids, k) == k \in DOMAIN kids

\* a segment applied to a scalar leaves the scalar in place
ScalarStepIgnored(current, keys, i) == [val |-> current, err |-> Nil, n |-> Len(keys)]

\* the default case of the type switch: segment i + 1 meets a value that is
\* neither a map nor a slice
ScalarStep(current, keys, i) ==
    NavigateFails(NewError("path segment %q not found", keys[i + 1], 0), i + 1)

\* the loop of Navigate from segment i on
RECURSIVE NavigateFrom(_, _, _)
NavigateFrom(current, keys, i) ==
    IF i = Len(keys) THEN NavigateDone(current, i)
    ELSE LET k == keys[i + 1] IN
         CASE current.t = "map" ->
                IF ~HasKey(current.kids, k)
                THEN NavigateFails(NewError("key %q not found", k, 0), i + 1)
                ELSE NavigateFrom(current.kids[k], keys, i + 1)
           [] current.t = "seq" ->
                IF isFilterToken(k)
                THEN LET p == parseFilterToken(k) IN
                     IF p.err # Nil THEN NavigateFails(p.err, i + 1)
                     ELSE LET want == coerce(p.val)
                              at   == FilterScan(current.kids, 1, p.key, want)
                          IN  IF at = 0
                              THEN NavigateFails(NewError("no array element where %s=%v",
                                                          p.key \o <<"=">> \o Sprint(want), 0),
                                                 i + 1)
                              ELSE NavigateFrom(current.kids[at], keys, i + 1)
                ELSE LET idx == Atoi(k) IN
                     IF ~idx.ok
                     THEN NavigateFails(NewError("%q is not a valid array index or filter", k, 0),
                                        i + 1)
                     ELSE IF \/ Head(idx.v) = "-"
                             \/ Len(idx.v) > MaxIndexDigits
                             \/ ToNat(idx.v) >= Len(current.kids)
                     THEN NavigateFails(NewError("array index %d out of bounds", idx.v, 0), i + 1)
                     ELSE NavigateFrom(current.kids[ToNat(idx.v) + 1], keys, i + 1)
           [] OTHER -> ScalarStep(current, keys, i)

\* Navigate(data, keys)
Navigate(data, keys) == NavigateFrom(data, keys, 0)

-----------------------------------------------------------------------------
(* Specification of the selector: each step applies one selector function  *)
(* to an input                                                             *)

MaxPath == 4

PathChars == { "a", ".", "[", "]" }

\* "servers.[host=example.org].port" with one-letter names
ExamplePath == <<"s", ".", "[", "h", "=", "e", ".", "o", "]", ".", "p">>

\* every path of at most MaxPath characters, and the example
PathInputs == UNION { [1..n -> PathChars] : n \in 0..MaxPath } \cup { ExamplePath }

MaxLit == 3

LitChars == { "0", "1", "5", "-", "+", ".", "e" }

\* the literals of the tests, letter-case variants of true and false, the
\* special floats, and the integers at the edge of the int range
NamedLiterals ==
    { <<"t", "r", "u", "e">>,
      <<"T", "R", "U", "E">>,
      <<"T", "r", "u", "e">>,
      <<"t", "R", "u", "E">>,
      <<"f", "a", "l", "s", "e">>,
      <<"F", "A", "L", "S", "E">>,
      <<"F", "a", "l", "s", "e">>,
      <<"f", "A", "l", "S", "e">>,
      <<"t">>,
      <<"F">>,
      <<"x">>,
      <<"h", "e", "l", "l", "o">>,
      <<"i", "n", "f">>,
      <<"-", "I", "n", "f">>,
      <<"I", "n", "f", "i", "n", "i", "t", "y">>,
      <<"N", "a", "N">>,
      <<"4", "2">>,
      <<"-", "7">>,
      <<"3", ".", "1", "4">>,
      <<"1", ".", "2", "e", "3">>,
      <<"0", "0", "7">>,
      <<"9", "2", "2", "3", "3", "7", "2", "0", "3", "6", "8", "5", "4", "7", "7", "5", "8", "0", "7">>,
      <<"9", "2", "2", "3", "3", "7", "2", "0", "3", "6", "8", "5", "4", "7", "7", "5", "8", "0", "8">>,
      <<"-", "9", "2", "2", "3", "3", "7", "2", "0", "3", "6", "8", "5", "4", "7", "7", "5", "8", "0", "8">> }

\* every string of at most MaxLit literal characters, and the named ones
CoerceInputs == UNION { [1..n -> LitChars] : n \in 0..MaxLit } \cup NamedLiterals

\* the float64 an adapter decodes from the text lit
F(lit) == FloatV(ParseFloat(lit).v)

\* the tree values compared by equalCoerced: scalars of every type, nil and
\* two containers; the floats lie within the range of int
TreeValues ==
    { IntV(lit) : lit \in { <<"0">>, <<"1">>, <<"5">>, <<"1", "0", "0", "0", "0", "0", "0">> } }
    \cup { Int64V(lit) : lit \in { <<"5">> } }
    \cup { F(lit) : lit \in { <<"1", ".", "0">>, <<"5", ".", "0">>, <<"5", ".", "1">>, <<"0", ".", "5">>, <<"-", "0", ".", "0">>, <<"1", "e", "6">>, <<"1", "e", "-", "5">>, <<"N", "a", "N">> } }
    \cup { StrV(lit) : lit \in { <<"5">>, <<"1">>, <<"t", "r", "u", "e">>, <<"x">>, <<"5", ".", "1">>, <<"1", "e", "+", "0", "6">>, <<"<", "n", "i", "l", ">">>, <<"[", "1", "]">>, <<"m", "a", "p", "[", "a", ":", "1", "]">>, <<>> } }
    \cup { BoolV(TRUE), BoolV(FALSE), NullV,
           SeqV(<<IntV(<<"1">>)>>), MapV(<<"a">> :> IntV(<<"1">>)) }

\* the filter values equalCoerced is called with
WantLiterals ==
    { <<"0">>, <<"1">>, <<"5">>, <<"1", "0", "0", "0", "0", "0", "0">>, <<"5", ".", "0">>, <<"5", ".", "1">>, <<"0", ".", "5">>, <<"1", "e", "6">>, <<"1", "e", "-", "5">>, <<"N", "a", "N">>, <<"t", "r", "u", "e">>, <<"f", "a", "l", "s", "e">>, <<"x">>, <<"<", "n", "i", "l", ">">>, <<"[", "1", "]">>, <<"m", "a", "p", "[", "a", ":", "1", "]">>, <<>> }

MaxElems == 3

\* the elements of the searched list: a string, a map without the field f,
\* maps whose field f is the Integer 1, the Float 1.0, the String "1" and
\* the Integer 5, told apart by their field n
Elems ==
    { StrV(<<"x">>),
      MapV(<<"g">> :> IntV(<<"1">>)),
      MapV(<<"f">> :> IntV(<<"1">>) @@ <<"n">> :> StrV(<<"a">>)),
      MapV(<<"f">> :> IntV(<<"1">>) @@ <<"n">> :> StrV(<<"b">>)),
      MapV(<<"f">> :> F(<<"1", ".", "0">>) @@ <<"n">> :> StrV(<<"c">>)),
      MapV(<<"f">> :> StrV(<<"1">>) @@ <<"n">> :> StrV(<<"d">>)),
      MapV(<<"f">> :> IntV(<<"5">>) @@ <<"n">> :> StrV(<<"e">>)) }

\* the trees: a map whose key s holds a list of at most MaxElems elements
Trees == { MapV(<<"s">> :> SeqV(l)) : l \in UNION { [1..n -> Elems] : n \in 0..MaxElems } }

\* the paths navigated: filters with and without a match, indices, a
\* malformed segment, a malformed filter, a missing key
NavPaths ==
    { <<"s", ".", "[", "f", "=", "1", "]", ".", "n">>,
      <<"s", ".", "[", "f", "=", "1", "]">>,
      <<"s", ".", "[", "f", "=", "5", "]", ".", "n">>,
      <<"s", ".", "[", "f", "=", "2", "]">>,
      <<"s", ".", "[", "f", " ", "=", " ", "'", "1", "'", "]", ".", "n">>,
      <<"s", ".", "[", "g", "=", "1", "]", ".", "n">>,
      <<"s", ".", "0">>,
      <<"s", ".", "1", ".", "n">>,
      <<"s", ".", "x">>,
      <<"s", ".", "[", "=", "1", "]">>,
      <<"t">>,
      <<"s", ".", "[", "f", "=", "1", "]", ".", "n", ".", "z">> }

\* the segment lists: the parsed paths and the empty list
KeyLists == { ParsePath(path) : path \in NavPaths } \cup { <<>> }

\* a tree of Mappings in Mappings and Sequences in Sequences, with leaves of
\* every scalar type, with keys shaped like an index, like a filter and
\* holding a dot, with the empty key and with empty containers
NestedTree ==
    MapV(<<"a">> :> MapV(<<"b">> :> StrV(<<"v">>)
                         @@ <<"0">> :> IntV(<<"7">>)
                         @@ <<"[", "f", "=", "1", "]">> :> BoolV(TRUE)
                         @@ <<"x", ".", "y">> :> F(<<"1", ".", "5">>)
                         @@ <<>> :> NullV)
         @@ <<"l">> :> SeqV(<< SeqV(<<StrV(<<"p">>), F(<<"0", ".", "5">>)>>),
                               MapV(<<"f">> :> IntV(<<"1">>) @@ <<"0">> :> StrV(<<"z">>)),
                               IntV(<<"3">>),
                               BoolV(FALSE),
                               NullV >>)
         @@ <<"e">> :> SeqV(<<>>)
         @@ <<"m">> :> MapV(<<>>))

\* the trees whose root is a Sequence, a scalar or a flat Mapping
DeepTrees ==
    { NestedTree,
      SeqV(<<StrV(<<"x">>), MapV(<<"k">> :> IntV(<<"1">>)), SeqV(<<Int64V(<<"5">>)>>)>>),
      StrV(<<"x">>),
      MapV(<<"s">> :> StrV(<<"leaf">>)) }

\* the segment lists from the root of tree to its scalars: map keys and
\* decimal indices
RECURSIVE LeafPaths(_)
LeafPaths(tree) ==
    CASE tree.t = "map" ->
            UNION { { <<k>> \o p : p \in LeafPaths(tree.kids[k]) } : k \in DOMAIN tree.kids }
      [] tree.t = "seq" ->
            UNION { { <<Itoa(j - 1)>> \o p : p \in LeafPaths(tree.kids[j]) } :
                    j \in 1..Len(tree.kids) }
      [] OTHER -> { <<>> }

\* segment lists that miss, go past a scalar, or are malformed at a
\* Sequence, and segments shaped like filters and indices met by a Mapping
DeepKeyLists ==
    { << <<"a">>, <<"b">>, <<"c">> >>,
      << <<"a">>, <<"b">>, <<"c">>, <<"d">> >>,
      << <<"a">>, <<"b">>, <<"0">>, <<"[", "=", "v", "]">> >>,
      << <<"a">>, <<"1">> >>,
      << <<"a">>, <<"[", "b", "=", "v", "]">> >>,
      << <<"a">>, <<"[", "=", "v", "]">> >>,
      << <<"a">>, <<>>, <<"q">> >>,
      << <<"l">>, <<"5">> >>,
      << <<"l">>, <<"-", "1">> >>,
      << <<"l">>, <<"-", "0">>, <<"+", "1">> >>,
      << <<"l">>, <<"0", "1">>, <<"f">> >>,
      << <<"l">>, <<"x">>, <<"y">> >>,
      << <<"l">>, <<>> >>,
      << <<"l">>, <<"[", "=", "v", "]">>, <<"q">> >>,
      << <<"l">>, <<"[", " ", "=", "v", "]">> >>,
      << <<"l">>, <<"[", "f", "]">> >>,
      << <<"l">>, <<"[", "f", "=", "1", "]">>, <<"0">> >>,
      << <<"l">>, <<"[", "f", "=", "9", "]">>, <<"0">> >>,
      << <<"l">>, <<"0">>, <<"[", "f", "=", "1", "]">> >>,
      << <<"l">>, <<"2">>, <<"0">> >>,
      << <<"l">>, <<"4">>, <<"0">> >>,
      << <<"e">>, <<"0">> >>,
      << <<"m">>, <<"0">> >>,
      << <<"0">> >>,
      << <<"1">>, <<"k">> >>,
      << <<"1">>, <<"j">> >>,
      << <<"9", "9", "9", "9", "9", "9", "9">> >>,
      << <<"[", "k", "=", "1", "]">>, <<"k">> >> }

\* the segment lists Navigate is called with on data: the parsed paths and
\* the paths to the leaves of data, and for the nested trees the lists above
NavigateKeys(data) ==
    IF data \in DeepTrees
    THEN LeafPaths(data) \cup DeepKeyLists \cup KeyLists
    ELSE LeafPaths(data) \cup KeyLists

MaxInner == 4

FilterChars == { "k", "=", "'", "\"", " " }

\* filter tokens whose value holds quotes in two layers, of two kinds, and
\* further '=' characters
NamedTokens ==
    { <<"[", "k", "=", "\"", "v", ".", "w", "\"", "]">>,
      <<"[", "k", "=", "\"", "'", "v", "'", "\"", "]">>,
      <<"[", "k", "=", "'", "'", "v", "'", "'", "]">>,
      <<"[", "k", "=", "'", "v", "\"", "'", "]">>,
      <<"[", "k", "=", "'", "v", "\"", "]">>,
      <<"[", "k", "=", "'", "a", "'", "b", "'", "]">>,
      <<"[", " ", "k", " ", "=", " ", "'", " ", "v", " ", "'", " ", "]">>,
      <<"[", "k", "=", "a", "=", "'", "b", "'", "]">>,
      <<"[", "k", "=", "v", "\\", "n", "]">>,
      <<"[", "k", "v", "]">> }

\* every token "[" inner "]" with at most MaxInner characters inside, and the
\* named ones
TokenInputs ==
    { <<"[">> \o inner \o <<"]">> : inner \in UNION { [1..n -> FilterChars] : n \in 0..MaxInner } }
    \cup NamedTokens

\* parseFilterToken(tok) is called
ParseFilterTokenCall ==
    /\ sel.op = "none"
    /\ \E tok \in TokenInputs :
        LET r == parseFilterToken(tok) IN
        sel' = [op |-> "parseFilterToken", tok |-> tok, key |-> r.key, val |-> r.val,
                err |-> r.err]
    /\ UNCHANGED <<order, backing, unknown, pc, op, s, maxDepth, out, pass, log, invoked, res, err,
                   rerun, sliceVars, concVars>>

\* ParsePath(path) is called
ParsePathCall ==
    /\ sel.op = "none"
    /\ \E path \in PathInputs :
        sel' = [op |-> "ParsePath", path |-> path, tokens |-> ParsePath(path)]
    /\ UNCHANGED <<order, backing, unknown, pc, op, s, maxDepth, out, pass, log, invoked, res, err,
                   rerun, sliceVars, concVars>>

\* coerce(val) is called
CoerceCall ==
    /\ sel.op = "none"
    /\ \E val \in CoerceInputs :
        sel' = [op |-> "coerce", val |-> val, result |-> coerce(val)]
    /\ UNCHANGED <<order, backing, unknown, pc, op, s, maxDepth, out, pass, log, invoked, res, err,
                   rerun, sliceVars, concVars>>

\* equalCoerced(v, coerce(lit)) is called
EqualCoercedCall ==
    /\ sel.op = "none"
    /\ \E v \in TreeValues, lit \in WantLiterals :
        sel' = [op |-> "equalCoerced", v |-> v, want |-> coerce(lit),
                result |-> equalCoerced(v, coerce(lit))]
    /\ UNCHANGED <<order, backing, unknown, pc, op, s, maxDepth, out, pass, log, invoked, res, err,
                   rerun, sliceVars, concVars>>

\* Navigate(data, keys) is called
NavigateCall ==
    /\ sel.op = "none"
    /\ \E data \in Trees \cup DeepTrees : \E keys \in NavigateKeys(data) :
        LET r == Navigate(data, keys)
        IN  sel' = [op |-> "Navigate", data |-> data, keys |-> keys,
                    val |-> r.val, err |-> r.err, n |-> r.n]
    /\ UNCHANGED <<order, backing, unknown, pc, op, s, maxDepth, out, pass, log, invoked, res, err,
                   rerun, sliceVars, concVars>>

\* the caller drops the result of the selector call
SelReturn ==
    /\ sel.op # "none"
    /\ sel' = NoSel
    /\ UNCHANGED <<order, backing, unknown, pc, op, s, maxDepth, out, pass, log, invoked, res, err,
                   rerun, sliceVars, concVars>>

InitSelector ==
    /\ order = <<>>
    /\ backing = <<>>
    /\ unknown = PassThrough
    /\ pc = "idle"
    /\ NoCall
    /\ Sequential

NextSelector ==
    \/ ParsePathCall
    \/ CoerceCall
    \/ EqualCoercedCall
    \/ NavigateCall
    \/ ParseFilterTokenCall
    \/ SelReturn

SpecSelector == InitSelector /\ [][NextSelector]_vars

-----------------------------------------------------------------------------
(* Properties of the interpolation engine *)

TokenOpen == <<"$", "{">>

EscapedOpen == <<"\\", "$", "{">>

\* a ResolveString / resolveStringDepth call has returned
StringCallDone == pc = "done" /\ op \in {"ResolveString", "resolveStringDepth"}

\* an unescaped ${ starts at position d of str
TokenOpenAt(str, d) ==
    /\ d + 2 <= Len(str)
    /\ Sub(str, d, d + 2) = TokenOpen
    /\ (d = 0 \/ At(str, d - 1) # "\\")

\* the 0-based positions of the backslash of every escape \${ of str: a \${
\* that is not inside the braces of a token opened to its left
EscapePositions(str) ==
    { i \in 0..(Len(str) - 3) :
        /\ Sub(str, i, i + 3) = EscapedOpen
        /\ \A d \in 0..(i - 1) :
              TokenOpenAt(str, d) => \E c \in (d + 2)..(i - 1) : At(str, c) = "}" }

\* the text after the escape at i, up to and including the next '}' (or to
\* the end of str when there is none)
SpanAfter(str, i) ==
    LET rest  == Sub(str, i + 3, Len(str))
        close == IndexByte(rest, "}")
    IN  IF close < 0 THEN rest ELSE Sub(rest, 0, close + 1)

\* the same text without the closing brace: what a token would hand to resolve
SpanContent(str, i) ==
    LET rest  == Sub(str, i + 3, Len(str))
        close == IndexByte(rest, "}")
    IN  IF close < 0 THEN rest ELSE Sub(rest, 0, close)

\* C1: in a successful result every \${ of the input shows as the literal
\* text ${ followed by the text that followed the escape (plain text up to
\* the next '}'), and that text is never handed to ResolveVariable as a token
\* by a later pass, whatever other tokens the input holds and however many
\* passes run.
C1_EscapeStaysLiteral ==
    (StringCallDone /\ ~rerun /\ err = Nil) =>
        \A i \in EscapePositions(s) :
            /\ \A c \in 1..Len(SpanContent(s, i)) : SpanContent(s, i)[c] # "$"
            => /\ Contains(res, TokenOpen \o SpanAfter(s, i))
               /\ \A k \in 1..Len(log) :
                     log[k].pass > 1 => log[k].tok # SpanContent(s, i)

\* position of the first ${ of str, -1 when there is none
FirstOpen(str) ==
    IF Contains(str, TokenOpen)
    THEN CHOOSE d \in 0..(Len(str) - 2) :
            /\ Sub(str, d, d + 2) = TokenOpen
            /\ \A e \in 0..(d - 1) : Sub(str, e, e + 2) # TokenOpen
    ELSE -1

\* the first token of str, read off the text: what precedes it, its content,
\* what follows its closing brace (closed is FALSE when no '}' follows)
FirstToken(str) ==
    LET d     == FirstOpen(str)
        close == IndexByte(Sub(str, d + 2, Len(str)), "}")
    IN  [before  |-> Sub(str, 0, d),
         closed  |-> close >= 0,
         content |-> Sub(str, d + 2, d + 2 + close),
         after   |-> Sub(str, d + 2 + close + 1, Len(str))]

\* deepest nesting the model looks at
NestFuel == PublicMaxDepth + 1

\* str holds no backslash, every token of it is closed, not blank and
\* resolves, and so does every replacement, at most fuel levels deep; no
\* replacement joins the following text into a new token
RECURSIVE WellNested(_, _)
WellNested(str, fuel) ==
    /\ \A i \in 1..Len(str) : str[i] # "\\"
    /\ \/ FirstOpen(str) < 0
       \/ LET t  == FirstToken(str)
              rv == ResolveVariable(t.content)
          IN  /\ fuel > 0
              /\ t.closed
              /\ TrimSpace(t.content) # <<>>
              /\ rv.err = Nil
              /\ ~(HasSuffix(rv.val, <<"$">>) /\ HasPrefix(t.after, <<"{">>))
              /\ WellNested(rv.val, fuel - 1)
              /\ WellNested(t.after, fuel)

\* number of levels the replacements of a well nested string nest
RECURSIVE NestDepth(_)
NestDepth(str) ==
    IF FirstOpen(str) < 0
    THEN 0
    ELSE LET t    == FirstToken(str)
             here == 1 + NestDepth(ResolveVariable(t.content).val)
             rest == NestDepth(t.after)
         IN  IF here >= rest THEN here ELSE rest

\* a well nested string with every token replaced, and every token of the
\* replacements, down to plain text
RECURSIVE FullExpand(_)
FullExpand(str) ==
    IF FirstOpen(str) < 0
    THEN str
    ELSE LET t == FirstToken(str)
         IN  t.before \o FullExpand(ResolveVariable(t.content).val) \o FullExpand(t.after)

\* C2: when the replacements of the input nest k levels deep, the call
\* succeeds if and only if maxDepth >= k; it then returns the fully expanded
\* text, and otherwise ErrBadPath and the empty string.
C2_MultiPassDepth ==
    (StringCallDone /\ WellNested(s, NestFuel)) =>
        LET k == NestDepth(s) IN
        /\ (err = Nil) <=> (maxDepth >= k)
        /\ err = Nil => res = FullExpand(s)
        /\ err # Nil => (ErrorsIs(err, ErrBadPath) /\ res = <<>>)

\* a three level input resolved with exactly three passes allowed
C2_Witness ==
    /\ StringCallDone
    /\ WellNested(s, NestFuel)
    /\ NestDepth(s) = 3
    /\ maxDepth = 3
    /\ err = Nil
    /\ Contains(res, OK)

\* a two level input failing with one pass allowed
C2_WitnessTooShallow ==
    /\ StringCallDone
    /\ WellNested(s, NestFuel)
    /\ NestDepth(s) = 2
    /\ maxDepth = 1
    /\ ErrorsIs(err, ErrBadPath)

\* the input is plain text around one token of the self-reintroducing scheme
LoopInput(str) ==
    /\ SchemeA \in DOMAIN backing
    /\ backing[SchemeA].kind = "loop"
    /\ FirstOpen(str) >= 0
    /\ LET t == FirstToken(str) IN
        /\ t.closed
        /\ HasPrefix(t.content, SchemeA)
        /\ \A i \in 1..Len(t.before) : t.before[i] \notin {"$", "\\"}
        /\ \A i \in 1..Len(t.after) : t.after[i] \notin {"$", "\\"}

\* C3: a call never runs more than maxDepth passes; when maxDepth passes
\* have each expanded a token and the string still holds ${, the call ends
\* at once with ErrBadPath and the empty string; with a resolver that always
\* returns a new token this happens after exactly maxDepth passes.
C3_DepthBound ==
    /\ [](pass <= maxDepth)
    /\ [][(pc = "pass" /\ pass >= maxDepth /\ Contains(out, TokenOpen))
            => (pc' = "done" /\ pass' = pass /\ ErrorsIs(err', ErrBadPath) /\ res' = <<>>)]_vars
    /\ []((StringCallDone /\ LoopInput(s))
            => (pass = maxDepth /\ ErrorsIs(err, ErrBadPath) /\ res = <<>>))

\* the public entry point gives up on a self-reintroducing token after 8 passes
C3_Witness ==
    /\ StringCallDone
    /\ op = "ResolveString"
    /\ LoopInput(s)
    /\ pass = PublicMaxDepth
    /\ \A n \in 1..PublicMaxDepth : \E k \in 1..Len(log) : log[k].pass = n
    /\ ErrorsIs(err, ErrBadPath)

\* str with every \${ replaced by ${, left to right
RECURSIVE UnwrapEscapes(_)
UnwrapEscapes(str) ==
    IF str = <<>>
    THEN <<>>
    ELSE IF HasPrefix(str, EscapedOpen)
    THEN TokenOpen \o UnwrapEscapes(Sub(str, 3, Len(str)))
    ELSE <<Head(str)>> \o UnwrapEscapes(Tail(str))

\* C4: a pass that hands no token to ResolveVariable and does not fail ends
\* the call: the call succeeds, and its result is the input of that pass with
\* the \${ escapes unwrapped; unwrapping alone never starts another pass.
C4_NoExpansionEndsCall ==
    [][(pc = "pass" /\ pass' = pass + 1 /\ log' = log /\ err' = Nil)
         => (pc' = "done" /\ res' = UnwrapEscapes(out))]_vars

\* a call that only unwrapped an escape: one pass, and ${ in the result
C4_Witness ==
    /\ StringCallDone
    /\ err = Nil
    /\ pass = 1
    /\ log = <<>>
    /\ Contains(s, EscapedOpen)
    /\ Contains(res, TokenOpen)
    /\ res # s

\* C5: ResolveString on the output of a successful call, when that output
\* holds no ${, succeeds, returns the output unchanged and calls no resolver.
C5_Idempotent ==
    (StringCallDone /\ rerun /\ ~Contains(s, TokenOpen)) =>
        (err = Nil /\ res = s /\ log = <<>> /\ invoked = <<>>)

\* the second run over an output that came out of a resolver and still holds
\* a backslash and a '$'
C5_Witness ==
    /\ StringCallDone
    /\ rerun
    /\ ~Contains(s, TokenOpen)
    /\ Contains(s, OK)
    /\ Contains(s, <<"\\", "$">>)
    /\ res = s

\* position of the first unescaped ${ of str at or after from, -1 when none
NextOpen(str, from) ==
    IF \E d \in from..(Len(str) - 2) : TokenOpenAt(str, d)
    THEN CHOOSE d \in from..(Len(str) - 2) :
            /\ TokenOpenAt(str, d)
            /\ \A e \in from..(d - 1) : ~TokenOpenAt(str, e)
    ELSE -1

\* what a pass over str meets first, reading the unescaped tokens from
\* position from on: a malformed token ("bad"), a token whose resolution
\* fails ("fail"), or the end; good counts the tokens resolved before it
RECURSIVE Reach(_, _, _)
Reach(str, from, good) ==
    LET d == NextOpen(str, from) IN
    IF d < 0
    THEN [kind |-> "end", pos |-> -1, tok |-> <<>>, good |-> good]
    ELSE
    LET close   == IndexByte(Sub(str, d + 2, Len(str)), "}")
        content == Sub(str, d + 2, d + 2 + close)
    IN  IF close < 0 \/ \A i \in 1..Len(content) : content[i] \in WhiteSpace
        THEN [kind |-> "bad", pos |-> d, tok |-> <<>>, good |-> good]
        ELSE IF ResolveVariable(content).err # Nil
        THEN [kind |-> "fail", pos |-> d, tok |-> content, good |-> good]
        ELSE Reach(str, d + 2 + close + 1, good + 1)

\* C6: a pass that reaches an unescaped ${ with no '}' after it, or with an
\* empty or blank content, fails the call with ErrBadPath and the empty
\* string, and ResolveVariable is not called for that token.
C6_MalformedToken ==
    [][(pc = "pass" /\ pass' = pass + 1 /\ Reach(out, 0, 0).kind = "bad")
         => LET m == Reach(out, 0, 0) IN
            /\ pc' = "done"
            /\ ErrorsIs(err', ErrBadPath)
            /\ res' = <<>>
            /\ Len(log') = Len(log) + m.good
            /\ \A k \in (Len(log) + 1)..Len(log') : log'[k].pos < m.pos]_vars

\* a blank token met after a token that resolved
C6_Witness ==
    /\ StringCallDone
    /\ ErrorsIs(err, ErrBadPath)
    /\ err.text[1].fmt = "%w: empty ${} at offset %d"
    /\ Reach(out, 0, 0).kind = "bad"
    /\ Reach(out, 0, 0).good >= 1
    /\ Len(log) >= 1
    /\ res = <<>>

\* C7: when ResolveVariable fails for a token the call fails at once with
\* the empty string, no token to the right of it is resolved, and the error
\* is the resolver's error wrapped as "resolve ${<content>}: ...", still
\* matched by errors.Is.
C7_ResolverErrorFailsFast ==
    [][(pc = "pass" /\ pass' = pass + 1 /\ Reach(out, 0, 0).kind = "fail")
         => LET m  == Reach(out, 0, 0)
                rv == ResolveVariable(m.tok)
            IN
            /\ pc' = "done"
            /\ res' = <<>>
            /\ err'.text[1] = [fmt |-> "resolve ${%s}: %w", str |-> m.tok, num |-> 0]
            /\ Tail(err'.text) = rv.err.text
            /\ rv.err.is # {}
            /\ rv.err.is \subseteq err'.is
            /\ Len(log') = Len(log) + m.good + 1
            /\ log'[Len(log')].pos = m.pos
            /\ log'[Len(log')].tok = m.tok]_vars

\* a resolver failed between a token that resolved and one never looked at
C7_Witness ==
    /\ StringCallDone
    /\ ErrorsIs(err, ErrorsNew("boom"))
    /\ Reach(out, 0, 0).kind = "fail"
    /\ Reach(out, 0, 0).good >= 1
    /\ NextOpen(out, Reach(out, 0, 0).pos + 1) >= 0
    /\ res = <<>>

\* C8: an input without ${ comes back unchanged and no resolver is called.
C8_NoTokenUnchanged ==
    (StringCallDone /\ ~Contains(s, TokenOpen)) =>
        (err = Nil /\ res = s /\ log = <<>> /\ invoked = <<>>)

\* a backslash before a bare '$', "$$", and a '$' ending the input
C8_Witness ==
    /\ StringCallDone
    /\ ~rerun
    /\ s = <<"\\", "$", "$">>
    /\ res = s
    /\ err = Nil

-----------------------------------------------------------------------------
(* Properties of the registry *)

\* a direct ResolveVariable call has returned
VariableCallDone == pc = "done" /\ op = "ResolveVariable"

\* no registered scheme is a prefix of value
NoSchemeMatches(value) == \A i \in 1..Len(order) : ~HasPrefix(value, order[i])

HasColon(value) == \E i \in 1..Len(value) : value[i] = ":"

\* str is exactly one token "${content}" with plain content
SingleToken(str) ==
    /\ FirstOpen(str) = 0
    /\ LET t == FirstToken(str) IN
        /\ t.closed
        /\ t.after = <<>>
        /\ \E i \in 1..Len(t.content) : t.content[i] \notin WhiteSpace
        /\ \A i \in 1..Len(t.content) : t.content[i] \notin {"$", "\\"}

\* C9: when no registered scheme is a prefix of the value, ResolveVariable
\* returns the value unchanged under PassThrough, and under ErrorOnUnknown
\* ErrNotFound if the value holds ':' and the value unchanged if not; no
\* resolver runs.  ResolveString therefore turns "${nosuch:foo}" into
\* "nosuch:foo" under PassThrough and fails with ErrNotFound under
\* ErrorOnUnknown.
C9_UnknownSchemePolicy ==
    /\ (VariableCallDone /\ NoSchemeMatches(s)) =>
          /\ invoked = <<>>
          /\ IF unknown = ErrorOnUnknown /\ HasColon(s)
             THEN ErrorsIs(err, ErrNotFound)
             ELSE err = Nil /\ res = s
    /\ (StringCallDone /\ maxDepth >= 1 /\ SingleToken(s)
            /\ NoSchemeMatches(FirstToken(s).content)) =>
          /\ invoked = <<>>
          /\ IF unknown = ErrorOnUnknown /\ HasColon(FirstToken(s).content)
             THEN ErrorsIs(err, ErrNotFound)
             ELSE err = Nil /\ res = FirstToken(s).content

\* a strict registry with schemes of its own refuses an unknown "c:x"
C9_Witness ==
    /\ VariableCallDone
    /\ unknown = ErrorOnUnknown
    /\ order # <<>>
    /\ NoSchemeMatches(s)
    /\ HasColon(s)
    /\ ErrorsIs(err, ErrNotFound)

\* a strict registry refuses the unknown token of a string
C9_WitnessString ==
    /\ StringCallDone
    /\ unknown = ErrorOnUnknown
    /\ SingleToken(s)
    /\ NoSchemeMatches(FirstToken(s).content)
    /\ ErrorsIs(err, ErrNotFound)

\* C10: ResolveVariable runs exactly one resolver, the one of the first
\* scheme in registration order that is a prefix of the value, on the value
\* without that prefix, and returns its result and error unchanged.
C10_FirstSchemeDispatch ==
    (VariableCallDone /\ ~NoSchemeMatches(s)) =>
        \E i \in 1..Len(order) :
            /\ HasPrefix(s, order[i])
            /\ \A j \in 1..(i - 1) : ~HasPrefix(s, order[j])
            /\ LET rest == SubSeq(s, Len(order[i]) + 1, Len(s))
                   r    == Resolve(backing[order[i]], rest)
               IN  /\ invoked = <<[scheme |-> order[i], rest |-> rest]>>
                   /\ res = r.val
                   /\ err = r.err

\* two registered schemes are prefixes of the value; the one registered
\* first is the longer one and gets the rest "x"
C10_Witness ==
    /\ VariableCallDone
    /\ Len(order) >= 2
    /\ order[1] = SchemeAB
    /\ order[2] = SchemeA
    /\ s = SchemeAB \o <<"x">>
    /\ invoked = <<[scheme |-> SchemeAB, rest |-> <<"x">>]>>
    /\ res = <<"s", "t", "u", "b", ":", "x">>

-----------------------------------------------------------------------------
(* Properties of concurrent registration *)

\* the schemes of h in the order of their first registration
RECURSIVE FirstRegistrations(_)
FirstRegistrations(h) ==
    IF h = <<>> THEN <<>>
    ELSE LET front == FirstRegistrations(SubSeq(h, 1, Len(h) - 1))
             last  == h[Len(h)].scheme
         IN  IF \E i \in 1..Len(front) : front[i] = last THEN front ELSE Append(front, last)

\* the resolver of the most recent registration of scheme in h
LastRegistered(h, scheme) ==
    h[CHOOSE i \in 1..Len(h) :
        /\ h[i].scheme = scheme
        /\ \A j \in (i + 1)..Len(h) : h[j].scheme # scheme].res

\* C11: whenever no Register call is inside its critical section, however the
\* calls of the goroutines interleaved, order holds every registered scheme
\* exactly once at the position of its first registration, the schemes of
\* order are the keys of backing, and each scheme maps to the resolver of its
\* most recent registration
C11_RegistryConsistent ==
    InRegister = {} =>
        /\ order = FirstRegistrations(hist)
        /\ \A i, j \in 1..Len(order) : order[i] = order[j] => i = j
        /\ { order[i] : i \in 1..Len(order) } = DOMAIN backing
        /\ \A scheme \in DOMAIN backing : backing[scheme] = LastRegistered(hist, scheme)

\* two goroutines registered the same scheme with different resolvers, a
\* second scheme was registered in between
C11_Witness ==
    /\ InRegister = {}
    /\ Len(hist) = 3
    /\ hist[1].scheme = hist[3].scheme
    /\ hist[1].res # hist[3].res
    /\ hist[1].by # hist[3].by
    /\ hist[2].scheme # hist[1].scheme
    /\ Len(order) = 2

-----------------------------------------------------------------------------
(* Properties of batch resolution *)

SliceCallDone(name) == pc = "done" /\ op = name

\* the 1-based positions of the elements of vals whose resolution fails
FailedAt(vals) == { k \in 1..Len(vals) : ResolveVariable(vals[k]).err # Nil }

\* the calls of ResolveVariable on the first n elements of vals, in index order
CallsUpTo(vals, n) == [k \in 1..n |-> [tok |-> vals[k], pos |-> k - 1, pass |-> 0]]

\* e wraps the error of element k of vals under the given message
WrapsElement(e, format, vals, k) ==
    LET elem == ResolveVariable(vals[k]).err IN
    /\ e.is = elem.is
    /\ e.text = <<[fmt |-> format, str |-> vals[k], num |-> k - 1]>> \o elem.text

\* C12: ResolveSlice resolves the elements in index order; at the first
\* failing element it returns a nil slice and an error wrapping that
\* element's error, having resolved no later element; when no element fails
\* the output has the length and order of the input; the input is unchanged
C12_ResolveSliceFailFast ==
    SliceCallDone("ResolveSlice") =>
        LET n == Len(s)
            failed == FailedAt(s)
        IN  /\ values = s
            /\ IF failed = {}
               THEN /\ err = Nil
                    /\ ~slice.nil
                    /\ Len(slice.elems) = n
                    /\ \A k \in 1..n : slice.elems[k] = ResolveVariable(s[k]).val
                    /\ log = CallsUpTo(s, n)
               ELSE LET f == CHOOSE k \in failed : \A j \in failed : k <= j IN
                    /\ slice = NilSlice
                    /\ err # Nil
                    /\ WrapsElement(err, "resolve slice index %d (%q): %w", s, f)
                    /\ log = CallsUpTo(s, f)
                    /\ Len(invoked) <= f

\* a slice whose second element fails, with resolvable elements on both sides
C12_Witness ==
    /\ SliceCallDone("ResolveSlice")
    /\ Len(s) = 3
    /\ FailedAt(s) = {2}
    /\ s[1] = <<"a", ":", "b">>
    /\ s[3] = <<"a", ":", "b">>
    /\ Len(invoked) = 2

\* a slice of three elements resolved without failure, one by a resolver
C12_WitnessSuccess ==
    /\ SliceCallDone("ResolveSlice")
    /\ Len(s) = 3
    /\ FailedAt(s) = {}
    /\ slice.elems # s

\* the k-th failed position of vals, counted from 1
NthFailed(vals, k) ==
    CHOOSE i \in FailedAt(vals) : Cardinality({ j \in FailedAt(vals) : j <= i }) = k

\* C13: ResolveSliceBestEffort resolves every element; the output has the
\* length of the input, holds the resolved or passed-through value of each
\* element that succeeds and "" for each that fails; errs holds one error
\* per failed element, in input order, wrapping that element's error
C13_BestEffort ==
    SliceCallDone("ResolveSliceBestEffort") =>
        LET n == Len(s)
            failed == FailedAt(s)
        IN  /\ log = CallsUpTo(s, n)
            /\ ~slice.nil
            /\ Len(slice.elems) = n
            /\ \A k \in 1..n :
                  slice.elems[k] = IF k \in failed THEN <<>> ELSE ResolveVariable(s[k]).val
            /\ Len(errs) = Cardinality(failed)
            /\ \A k \in 1..Len(errs) :
                  WrapsElement(errs[k], "index %d (%q): %w", s, NthFailed(s, k))

-----------------------------------------------------------------------------
(* Properties of ParsePath *)

\* the positions of the dots of str
Dots(str) == { i \in 0..(Len(str) - 1) : At(str, i) = "." }

\* the bracket depth in front of position i: starts at 0, one up at each '[',
\* one down at each ']' unless it is 0
RECURSIVE DepthBefore(_, _)
DepthBefore(str, i) ==
    IF i = 0 THEN 0
    ELSE LET d == DepthBefore(str, i - 1)
             c == At(str, i - 1)
         IN  IF c = "[" THEN d + 1 ELSE IF c = "]" /\ d > 0 THEN d - 1 ELSE d

\* the k-th smallest position of cuts
NthCut(cuts, k) == CHOOSE i \in cuts : Cardinality({ j \in cuts : j < i }) = k - 1

\* the pieces of str between the positions of cuts
TokensAt(str, cuts) ==
    LET n == Cardinality(cuts) IN
    [k \in 1..(n + 1) |->
        Sub(str, IF k = 1 THEN 0 ELSE NthCut(cuts, k - 1) + 1,
                 IF k = n + 1 THEN Len(str) ELSE NthCut(cuts, k))]

BracketFree(str) == \A i \in 0..(Len(str) - 1) : At(str, i) \notin {"[", "]"}

C14_WitnessEmpty == sel.op = "ParsePath" /\ sel.path = <<>> /\ Len(sel.tokens) = 1

\* C15: ParsePath cuts the path at exactly the dots in front of which the
\* bracket depth is 0
C15_SplitAtDepthZero ==
    sel.op = "ParsePath" =>
        sel.tokens = TokensAt(sel.path, { i \in Dots(sel.path) : DepthBefore(sel.path, i) = 0 })

\* the example: the '.' inside the brackets stays in the token
C15_Witness ==
    /\ sel.op = "ParsePath"
    /\ sel.path = ExamplePath
    /\ sel.tokens = << <<"s">>, <<"[", "h", "=", "e", ".", "o", "]">>, <<"p">> >>

\* an unclosed '[' suppressed the later split
C15_WitnessUnclosed ==
    /\ sel.op = "ParsePath"
    /\ sel.path = <<"a", "[", ".", "a">>
    /\ Len(sel.tokens) = 1

\* a stray ']' left the later split in place
C15_WitnessStray ==
    /\ sel.op = "ParsePath"
    /\ sel.path = <<"]", ".", "[", "]">>
    /\ Len(sel.tokens) = 2

-----------------------------------------------------------------------------
(* Properties of coerce *)

Unsigned(str) == IF HasSign(str) THEN Tail(str) ELSE str

\* a base-10 integer literal: an optional sign and one or more digits
IsIntLiteral(str) == Unsigned(str) # <<>> /\ AllDigits(Unsigned(str))

\* the integer a short literal or an int denotes
IntValue(str) ==
    IF str # <<>> /\ Head(str) = "-" THEN 0 - ToNat(Tail(str)) ELSE ToNat(Unsigned(str))

\* digits, optionally with one '.', holding at least one digit
IsMantissa(x) ==
    /\ \E k \in 1..Len(x) : IsDigit(x[k])
    /\ \E i \in 0..Len(x) :
        /\ AllDigits(Sub(x, 0, i))
        /\ i = Len(x) \/ (At(x, i) = "." /\ AllDigits(Sub(x, i + 1, Len(x))))

\* nothing, or 'e' or 'E', an optional sign and one or more digits
IsExponent(x) ==
    \/ x = <<>>
    \/ /\ Head(x) \in {"e", "E"}
       /\ Unsigned(Tail(x)) # <<>>
       /\ AllDigits(Unsigned(Tail(x)))

\* a numeric literal of floating-point syntax, scientific notation and the
\* special values Inf, Infinity, NaN included
IsNumericLiteral(str) ==
    \/ \E j \in 0..Len(Unsigned(str)) :
          /\ IsMantissa(Sub(Unsigned(str), 0, j))
          /\ IsExponent(Sub(Unsigned(str), j, Len(Unsigned(str))))
    \/ ToLower(Unsigned(str)) \in { <<"i", "n", "f">>, <<"i", "n", "f", "i", "n", "i", "t", "y">> }
    \/ ToLower(str) = <<"n", "a", "n">>

IsBoolWord(str) == ToLower(str) \in { <<"t", "r", "u", "e">>, <<"f", "a", "l", "s", "e">> }

\* the literals short enough for their value to be computed
ShortLiteral(str) == Len(Unsigned(str)) <= MaxLit + 1

\* the parts of the order of coerce that hold of every input
CoerceOrder(val, r) ==
    /\ (~IsIntLiteral(val) /\ IsNumericLiteral(val)) => r.t = "float"
    /\ (~IsIntLiteral(val) /\ ~IsNumericLiteral(val) /\ IsBoolWord(val)) => r.t = "bool"
    /\ (~IsIntLiteral(val) /\ ~IsNumericLiteral(val) /\ ~IsBoolWord(val)) => r = StrV(val)
    /\ (IsIntLiteral(val) /\ r.t = "int" /\ ShortLiteral(val)) => IntValue(r.txt) = IntValue(val)

C16_WitnessOverflow ==
    /\ sel.op = "coerce"
    /\ sel.val = MinInt64Mag
    /\ sel.result.t = "float"

\* "1.2e3" was coerced to the Float 12 * 10^2
C16_WitnessFloat ==
    /\ sel.op = "coerce"
    /\ sel.val = <<"1", ".", "2", "e", "3">>
    /\ sel.result = FloatV([special |-> "", neg |-> FALSE, sig |-> <<"1", "2">>, exp |-> 2])

\* C17: every string that is "true" but for the case of its letters is
\* coerced to Bool(true), every such variant of "false" to Bool(false)
C17_BoolIgnoresCase ==
    sel.op = "coerce" =>
        /\ ToLower(sel.val) = <<"t", "r", "u", "e">> => sel.result = BoolV(TRUE)
        /\ ToLower(sel.val) = <<"f", "a", "l", "s", "e">> => sel.result = BoolV(FALSE)

-----------------------------------------------------------------------------
(* Properties of equalCoerced *)

RECURSIVE Pow10(_)
Pow10(n) == IF n = 0 THEN 1 ELSE 10 * Pow10(n - 1)

\* the float64 f is a finite number with a fractional part
HasFraction(f) == f.special = "" /\ f.sig # <<>> /\ f.exp < 0

\* the integer a finite float64 without fractional part is equal to
WholeValue(f) ==
    IF f.sig = <<>> THEN 0
    ELSE (IF f.neg THEN -1 ELSE 1) * ToNat(f.sig) * Pow10(f.exp)

\* C19: an Integer filter value matches a tree Integer exactly when the
\* values are the same, and a tree Float exactly when the Float is a
\* number without fractional part equal to the Integer
C19_IntegerMatchesNumerically ==
    (sel.op = "equalCoerced" /\ sel.want.t = "int") =>
        /\ sel.v.t \in {"int", "int64"} =>
              (sel.result <=> IntValue(sel.v.txt) = IntValue(sel.want.txt))
        /\ sel.v.t = "float" =>
              (sel.result <=> /\ sel.v.f.special = ""
                              /\ ~HasFraction(sel.v.f)
                              /\ WholeValue(sel.v.f) = IntValue(sel.want.txt))

\* the tree Float 1.0 matched the filter value 1
C19_Witness ==
    /\ sel.op = "equalCoerced"
    /\ sel.want = IntV(<<"1">>)
    /\ sel.v = F(<<"1", ".", "0">>)
    /\ sel.result

\* the tree Float 5.1 did not match the filter value 5
C19_WitnessFraction ==
    /\ sel.op = "equalCoerced"
    /\ sel.want = IntV(<<"5">>)
    /\ sel.v = F(<<"5", ".", "1">>)
    /\ ~sel.result

\* the two values have one of the types Bool, Integer, Float, String in common
SameTyped(v, want) == v.t = want.t /\ v.t \in {"bool", "int", "float", "string"}

\* the comparison of two values of one type
DirectlyEqual(v, want) ==
    CASE v.t = "bool"  -> v.b = want.b
      [] v.t = "float" -> FloatEq(v.f, want.f)
      [] OTHER         -> v.txt = want.txt

\* C20 as stated: a pair of one type is compared directly, every other
\* pair by the equality of the renderings of its two sides
C20_EqualCoerced ==
    sel.op = "equalCoerced" =>
        (sel.result <=> IF SameTyped(sel.v, sel.want)
                        THEN DirectlyEqual(sel.v, sel.want)
                        ELSE Sprint(sel.v) = Sprint(sel.want))

\* C20: a pair of one type is compared directly; an Integer filter value
\* and a tree Float are compared as numbers (C19); every other pair by the
\* equality of the renderings of its two sides
C20_EqualCoercedNumeric ==
    sel.op = "equalCoerced" =>
        (sel.result <=>
            IF SameTyped(sel.v, sel.want) THEN DirectlyEqual(sel.v, sel.want)
            ELSE IF sel.want.t = "int" /\ sel.v.t = "float"
            THEN /\ sel.v.f.special = ""
                 /\ ~HasFraction(sel.v.f)
                 /\ WholeValue(sel.v.f) = IntValue(sel.want.txt)
            ELSE Sprint(sel.v) = Sprint(sel.want))

\* the tree String "5" matched the Integer filter value 5
C20_Witness ==
    /\ sel.op = "equalCoerced"
    /\ sel.want = IntV(<<"5">>)
    /\ sel.v = StrV(<<"5">>)
    /\ sel.result

\* the tree String "true" matched the Bool filter value true
C20_WitnessBool ==
    /\ sel.op = "equalCoerced"
    /\ sel.want = BoolV(TRUE)
    /\ sel.v = StrV(<<"t", "r", "u", "e">>)
    /\ sel.result

-----------------------------------------------------------------------------
(* Properties of Navigate *)

\* the call navigated into the list under s with a well-formed filter token
FilterStep ==
    /\ sel.op = "Navigate"
    /\ Len(sel.keys) >= 2
    /\ sel.keys[1] = <<"s">>
    /\ sel.data.t = "map"
    /\ <<"s">> \in DOMAIN sel.data.kids
    /\ sel.data.kids[<<"s">>].t = "seq"
    /\ isFilterToken(sel.keys[2])
    /\ parseFilterToken(sel.keys[2]).err = Nil

\* the positions of the Mappings of elems whose field fk equals want
Matching(elems, fk, want) ==
    { i \in 1..Len(elems) :
        /\ elems[i].t = "map"
        /\ fk \in DOMAIN elems[i].kids
        /\ equalCoerced(elems[i].kids[fk], want) }

\* C18: a filter segment continues the navigation from the Mapping of
\* lowest index whose field equals the coerced value, whatever non-Mappings,
\* Mappings without the field and later matches the Sequence holds; without
\* a match Navigate fails
C18_FilterFirstMatch ==
    FilterStep =>
        LET elems == sel.data.kids[<<"s">>].kids
            p     == parseFilterToken(sel.keys[2])
            m     == Matching(elems, p.key, coerce(p.val))
        IN  IF m = {} THEN sel.err # Nil /\ sel.val = NullV
            ELSE LET first == CHOOSE i \in m : \A j \in m : i <= j
                     rest  == Navigate(elems[first], SubSeq(sel.keys, 3, Len(sel.keys)))
                 IN  sel.val = rest.val /\ sel.err = rest.err

\* the filter [f=1] passed a Mapping without f and took the first of two matches
C18_Witness ==
    /\ FilterStep
    /\ sel.keys = << <<"s">>, <<"[", "f", "=", "1", "]">>, <<"n">> >>
    /\ Len(sel.data.kids[<<"s">>].kids) = 3
    /\ Matching(sel.data.kids[<<"s">>].kids, <<"f">>, IntV(<<"1">>)) = {2, 3}
    /\ sel.data.kids[<<"s">>].kids[2] # sel.data.kids[<<"s">>].kids[3]
    /\ sel.data.kids[<<"s">>].kids[1].t = "map"
    /\ sel.err = Nil
    /\ sel.val = sel.data.kids[<<"s">>].kids[2].kids[<<"n">>]

\* the filter passed an element that is no Mapping
C18_WitnessNotMap ==
    /\ FilterStep
    /\ Matching(sel.data.kids[<<"s">>].kids, <<"f">>, IntV(<<"1">>)) = {2}
    /\ sel.data.kids[<<"s">>].kids[1].t = "string"
    /\ sel.keys[2] = <<"[", "f", "=", "1", "]">>
    /\ sel.err = Nil

\* the filter matched no element and Navigate failed
C18_WitnessNoMatch ==
    /\ FilterStep
    /\ Len(sel.data.kids[<<"s">>].kids) = 3
    /\ sel.keys[2] = <<"[", "f", "=", "2", "]">>
    /\ sel.err # Nil

\* the value at the end of the segment list path, by the structure of tree:
\* a segment is the key of a Mapping or the decimal position in a Sequence
RECURSIVE ValueAt(_, _)
ValueAt(tree, path) ==
    IF path = <<>> THEN tree
    ELSE IF tree.t = "map" THEN ValueAt(tree.kids[Head(path)], Tail(path))
    ELSE ValueAt(tree.kids[ToNat(Head(path)) + 1], Tail(path))

IsScalar(v) == v.t \notin { "map", "seq" }

NavigateCallDone == sel.op = "Navigate"

\* C21: Navigate along the exact keys and decimal indices from the root to
\* a leaf succeeds and returns that leaf as the value it is, and Navigate
\* with no segments returns the root
C21_NavigateRoundTrip ==
    NavigateCallDone =>
        /\ sel.keys \in LeafPaths(sel.data) =>
              /\ sel.err = Nil
              /\ sel.val = ValueAt(sel.data, sel.keys)
              /\ IsScalar(sel.val)
              /\ sel.n = Len(sel.keys)
        /\ sel.keys = <<>> => sel.err = Nil /\ sel.val = sel.data

\* Navigate went through a Mapping and two Sequences to a Float leaf
C21_Witness ==
    /\ NavigateCallDone
    /\ sel.data = NestedTree
    /\ sel.keys = << <<"l">>, <<"0">>, <<"1">> >>
    /\ sel.keys \in LeafPaths(sel.data)
    /\ sel.err = Nil
    /\ sel.val = F(<<"0", ".", "5">>)

\* Navigate with no segments returned a root that is a Mapping
C21_WitnessRoot ==
    /\ NavigateCallDone
    /\ sel.keys = <<>>
    /\ sel.data = NestedTree
    /\ sel.val = NestedTree

\* the outcome of Navigate for the first j segments of the call
Reached(j) ==
    IF j = Len(sel.keys) THEN [val |-> sel.val, err |-> sel.err]
    ELSE LET r == Navigate(sel.data, SubSeq(sel.keys, 1, j)) IN [val |-> r.val, err |-> r.err]

\* C30: a segment that meets a Mapping is looked up as a key whatever its
\* shape, and a filter segment that succeeds leaves a Mapping
C30_MappingKeysLiteral ==
    NavigateCallDone =>
        \A j \in 1..Len(sel.keys) :
            LET before == Reached(j - 1)
                after  == Reached(j)
                k      == sel.keys[j]
            IN  before.err = Nil =>
                    /\ before.val.t = "map" =>
                          IF k \in DOMAIN before.val.kids
                          THEN after.err = Nil /\ after.val = before.val.kids[k]
                          ELSE after.err # Nil
                    /\ (before.val.t = "seq" /\ isFilterToken(k) /\ after.err = Nil) =>
                          /\ after.val.t = "map"
                          /\ \E i \in 1..Len(before.val.kids) : after.val = before.val.kids[i]
                    /\ (isFilterToken(k) \/ Atoi(k).ok) /\ after.err = Nil =>
                          before.val.t \in { "map", "seq" }

\* a Mapping was asked for its key "[f=1]" and gave the value stored under it
C30_Witness ==
    /\ NavigateCallDone
    /\ sel.data = NestedTree
    /\ sel.keys = << <<"a">>, <<"[", "f", "=", "1", "]">> >>
    /\ isFilterToken(sel.keys[2])
    /\ sel.err = Nil
    /\ sel.val = BoolV(TRUE)

\* a Mapping was asked for its key "0" and gave the value stored under it
C30_WitnessIndex ==
    /\ NavigateCallDone
    /\ sel.data = NestedTree
    /\ sel.keys = << <<"a">>, <<"0">> >>
    /\ sel.err = Nil
    /\ sel.val = IntV(<<"7">>)

\* a Mapping without the key "[b=v]" did not filter on its field b
C30_WitnessNoFilter ==
    /\ NavigateCallDone
    /\ sel.data = NestedTree
    /\ sel.keys = << <<"a">>, <<"[", "b", "=", "v", "]">> >>
    /\ sel.err # Nil

\* a filter on a Sequence succeeded and left a Mapping
C30_WitnessFilter ==
    /\ NavigateCallDone
    /\ sel.data = NestedTree
    /\ sel.keys = << <<"l">>, <<"[", "f", "=", "1", "]">>, <<"0">> >>
    /\ sel.err = Nil
    /\ sel.val = StrV(<<"z">>)

\* the value the failing segment of the call met
FailedOn == Reached(sel.n - 1).val

\* the segment the call failed at
FailedSegment == sel.keys[sel.n]

\* the call failed because the data is missing: a Mapping without the key,
\* a Sequence without the index, a Sequence without a matching element
MissingData ==
    /\ NavigateCallDone
    /\ sel.err # Nil
    /\ \/ FailedOn.t = "map" /\ FailedSegment \notin DOMAIN FailedOn.kids
       \/ /\ FailedOn.t = "seq"
          /\ ~isFilterToken(FailedSegment)
          /\ Atoi(FailedSegment).ok
          /\ \/ Head(Atoi(FailedSegment).v) = "-"
             \/ Len(Atoi(FailedSegment).v) > MaxIndexDigits
             \/ ToNat(Atoi(FailedSegment).v) >= Len(FailedOn.kids)
       \/ /\ FailedOn.t = "seq"
          /\ isFilterToken(FailedSegment)
          /\ parseFilterToken(FailedSegment).err = Nil
          /\ Matching(FailedOn.kids, parseFilterToken(FailedSegment).key,
                      coerce(parseFilterToken(FailedSegment).val)) = {}

\* C22: a Navigate that fails on a missing key, an index out of range or a
\* filter without a match returns an error that is ErrNotFound
C22_MissingIsNotFound == MissingData => ErrorsIs(sel.err, ErrNotFound)

\* the call failed at a Sequence because the segment is malformed: neither
\* a filter token nor an integer, or a filter token with an empty field
MalformedSegment ==
    /\ NavigateCallDone
    /\ sel.err # Nil
    /\ FailedOn.t = "seq"
    /\ \/ ~isFilterToken(FailedSegment) /\ ~Atoi(FailedSegment).ok
       \/ /\ isFilterToken(FailedSegment)
          /\ TrimSpace(Sub(FailedSegment, 1, IndexByte(FailedSegment, "="))) = <<>>

\* C23: a Navigate that fails at a Sequence on a malformed segment returns
\* an error that is ErrBadPath, and a segment list holding a filter token
\* with an empty field fails only at that segment
C23_MalformedIsBadPath ==
    /\ MalformedSegment => ErrorsIs(sel.err, ErrBadPath)
    /\ NavigateCallDone =>
          \A j \in 1..Len(sel.keys) :
              (isFilterToken(sel.keys[j]) /\ parseFilterToken(sel.keys[j]).err # Nil
               /\ Reached(j - 1).err = Nil /\ Reached(j - 1).val.t = "seq")
                  => sel.err # Nil /\ sel.n = j

\* segment lists that may follow the failing segment
Tails ==
    { <<>>,
      << <<"z">> >>,
      << <<"[", "=", "]">>, <<"0">> >>,
      << <<"a">>, <<"b">> >> }

\* C24: a failing Navigate returns no value; the segments in front of the
\* failing one were consumed in order and succeeded, the segments behind it
\* have no influence on the result, and a segment that meets a scalar fails
C24_StopsAtFirstFailure ==
    NavigateCallDone =>
        /\ sel.err # Nil =>
              /\ sel.val = NullV
              /\ sel.n \in 1..Len(sel.keys)
              /\ \A j \in 0..(sel.n - 1) : Reached(j).err = Nil
              /\ \A tail \in Tails :
                    LET r == Navigate(sel.data, SubSeq(sel.keys, 1, sel.n) \o tail)
                    IN  r.err = sel.err /\ r.val = NullV /\ r.n = sel.n
        /\ sel.err = Nil => \A j \in 0..Len(sel.keys) : Reached(j).err = Nil
        /\ \A j \in 1..Len(sel.keys) :
              (Reached(j - 1).err = Nil /\ IsScalar(Reached(j - 1).val))
                  => sel.err # Nil /\ sel.n = j

\* the third of four segments met the String under a.b: Navigate failed
\* there and returned neither that String nor the Mapping under a
C24_Witness ==
    /\ NavigateCallDone
    /\ sel.data = NestedTree
    /\ sel.keys = << <<"a">>, <<"b">>, <<"c">>, <<"d">> >>
    /\ Reached(2).val = StrV(<<"v">>)
    /\ sel.err # Nil
    /\ sel.n = 3
    /\ sel.val = NullV

\* the second of three segments was a malformed filter: the third was not
\* examined
C24_WitnessMalformed ==
    /\ NavigateCallDone
    /\ sel.data = NestedTree
    /\ sel.keys = << <<"l">>, <<"[", "=", "v", "]">>, <<"q">> >>
    /\ sel.err # Nil
    /\ sel.n = 2

\* the segment met Null
C24_WitnessNull ==
    /\ NavigateCallDone
    /\ sel.data = NestedTree
    /\ sel.keys = << <<"l">>, <<"4">>, <<"0">> >>
    /\ Reached(2).err = Nil
    /\ Reached(2).val = NullV
    /\ sel.err # Nil

-----------------------------------------------------------------------------
(* Properties of ParsePath (continued) *)

\* C29: the tokens of ParsePath joined with '.' are the path, and there is
\* one token more than the path has dots at bracket depth 0
C29_ParsePathLossless ==
    sel.op = "ParsePath" =>
        /\ Join(sel.tokens, <<".">>) = sel.path
        /\ Len(sel.tokens) =
              1 + Cardinality({ i \in Dots(sel.path) : DepthBefore(sel.path, i) = 0 })

\* a path with a dot inside and a dot outside brackets gave two tokens
C29_Witness ==
    /\ sel.op = "ParsePath"
    /\ sel.path = <<"[", ".", "]", ".">>
    /\ sel.tokens = << <<"[", ".", "]">>, <<>> >>
    /\ Join(sel.tokens, <<".">>) = sel.path

-----------------------------------------------------------------------------
(* Properties of parseFilterToken *)

\* the text between the brackets of tok
Inner(tok) == Sub(tok, 1, Len(tok) - 1)

\* val without one layer of surrounding quotes of one kind, if it has one
StripLayer(val) ==
    IF Len(val) >= 2 /\ val[1] = val[Len(val)] /\ val[1] \in { "'", "\"" }
    THEN SubSeq(val, 2, Len(val) - 1)
    ELSE val

\* the call parsed a token with a '=' and a field in front of it
FilterParsed ==
    /\ sel.op = "parseFilterToken"
    /\ IndexByte(Inner(sel.tok), "=") >= 0
    /\ TrimSpace(Sub(Inner(sel.tok), 0, IndexByte(Inner(sel.tok), "="))) # <<>>

\* C25: the field is the trimmed text in front of the first '=' and the
\* value the trimmed text behind it without one layer of surrounding
\* matching quotes
C25_FilterTokenParts ==
    FilterParsed =>
        LET inner == Inner(sel.tok)
            eq    == IndexByte(inner, "=")
        IN  /\ sel.err = Nil
            /\ sel.key = TrimSpace(Sub(inner, 0, eq))
            /\ sel.val = StripLayer(TrimSpace(Sub(inner, eq + 1, Len(inner))))

-----------------------------------------------------------------------------
(* Properties of the interpolation engine (continued) *)

\* the position of the first '}' of str at or after from that has no
\* backslash in front of it, -1 when there is none
RECURSIVE UnescapedClose(_, _)
UnescapedClose(str, from) ==
    IF from >= Len(str) THEN -1
    ELSE IF At(str, from) = "}" /\ At(str, from - 1) # "\\" THEN from
    ELSE UnescapedClose(str, from + 1)

\* C26: the content of every token the first pass hands to ResolveVariable
\* runs from its ${ to the next '}' without a backslash in front of it, and
\* a call that fails for a missing closing brace has no such '}' after
\* the ${
C26_TokenEndsAtUnescapedBrace ==
    (op \in {"ResolveString", "resolveStringDepth"} /\ pass >= 1) =>
        /\ \A k \in 1..Len(log) :
              log[k].pass = 1 =>
                  LET close == UnescapedClose(s, log[k].pos + 2) IN
                  /\ close >= 0
                  /\ log[k].tok = Sub(s, log[k].pos + 2, close)
        /\ (pc = "done" /\ pass = 1 /\ err # Nil
            /\ err.text[1].fmt = "%w: missing closing '}' at offset %d")
              => UnescapedClose(s, err.text[1].num + 2) = -1

\* the tokens a pass over str meets from position from on, left to right,
\* each with the position of its '$' and the position behind its '}'
RECURSIVE PassTokens(_, _)
PassTokens(str, from) ==
    LET d == NextOpen(str, from) IN
    IF d < 0 THEN <<>>
    ELSE LET close == IndexByte(Sub(str, d + 2, Len(str)), "}") IN
         IF close < 0 THEN <<>>
         ELSE <<[pos |-> d, tok |-> Sub(str, d + 2, d + 2 + close), end |-> d + 2 + close + 1]>>
              \o PassTokens(str, d + 2 + close + 1)

\* str with the tokens toks from the k-th on replaced by what ResolveVariable
\* returns for them and the escapes of the text between them unwrapped
RECURSIVE RenderFrom(_, _, _, _)
RenderFrom(str, toks, k, from) ==
    IF k > Len(toks) THEN UnwrapEscapes(Sub(str, from, Len(str)))
    ELSE UnwrapEscapes(Sub(str, from, toks[k].pos))
         \o ResolveVariable(toks[k].tok).val
         \o RenderFrom(str, toks, k + 1, toks[k].end)

\* the resolvers run for the tokens toks from the k-th on
RECURSIVE InvokedFor(_, _)
InvokedFor(toks, k) ==
    IF k > Len(toks) THEN <<>>
    ELSE ResolveVariable(toks[k].tok).inv \o InvokedFor(toks, k + 1)

\* C27: a pass that does not fail hands the tokens of its input to
\* ResolveVariable from left to right, each once; its output is its input
\* with each token replaced by the text returned for it, as returned; when a
\* token was replaced that output is the input of the next pass
C27_PassDiscipline ==
    [][(pc = "pass" /\ pass' = pass + 1 /\ err' = Nil)
         => LET toks == PassTokens(out, 0)
                text == RenderFrom(out, toks, 1, 0)
            IN
            /\ Len(log') = Len(log) + Len(toks)
            /\ \A k \in 1..Len(toks) :
                  log'[Len(log) + k] =
                      [tok |-> toks[k].tok, pos |-> toks[k].pos, pass |-> pass + 1]
            /\ \A k \in 1..(Len(toks) - 1) : toks[k].end <= toks[k + 1].pos
            /\ invoked' = invoked \o InvokedFor(toks, 1)
            /\ IF toks = <<>>
               THEN pc' = "done" /\ res' = text
               ELSE pc' = "pass" /\ out' = text]_vars

\* the first pass replaced two tokens by texts that hold a token each and
\* left them alone; the second pass resolved those two, which the input of
\* the call does not hold
C27_Witness ==
    /\ op = "ResolveString"
    /\ pass = 2
    /\ err = Nil
    /\ Len(log) = 4
    /\ log[1].pass = 1 /\ log[2].pass = 1 /\ log[1].pos < log[2].pos
    /\ log[3].pass = 2 /\ log[4].pass = 2 /\ log[3].pos < log[4].pos
    /\ log[3].tok = SchemeB
    /\ ~Contains(s, <<"$", "{", "b", ":", "}">>)
    /\ out = OK \o OK

-----------------------------------------------------------------------------
(* Properties of the registry lock *)

\* the stack depths at which a resolver of goroutine i is running: the
\* ResolveVariable calls at `res.Resolve(rest)`
Resolving(i) ==
    { d \in 1..Len(g[i]) :
        g[i][d].op = "ResolveVariable" /\ g[i][d].pc \in { "resolve", "resumed" } }

\* no call of a goroutine holds the lock while a resolver it called runs
LockNotHeld ==
    \A i \in G : \A d \in Resolving(i) :
        /\ \A e \in 1..d : <<i, e>> \notin mu.r
        /\ mu.w = i => \E e \in (d + 1)..Len(g[i]) :
                          g[i][e].op \in { "Register", "SetUnknownSchemePolicy" }

\* no goroutine is inside a call
AllReturned == \A i \in G : g[i] = <<>>

\* C28: the lock is never held by a call whose resolver is running, and
\* whatever the interleaving and whatever the resolvers call on the
\* registry, the calls all return: no goroutine stays blocked
C28_NoLockWhileResolving ==
    /\ []LockNotHeld
    /\ <>[]AllReturned

\* a resolver of goroutine 1 is inside the Register it called, holding the
\* write lock, while goroutine 2 waits in RLock
C28_Witness ==
    /\ Len(g[1]) = 2
    /\ g[1][1].op = "ResolveVariable" /\ g[1][1].pc = "resumed"
    /\ g[1][2].op = "Register" /\ g[1][2].pc = "unlock"
    /\ mu.w = 1
    /\ g[2] # <<>>
    /\ Top(2).op = "ResolveVariable" /\ Top(2).pc = "rlock"

\* a resolver called by ResolveString resolved through the registry while
\* another goroutine had announced its Lock
C28_WitnessPending ==
    /\ Len(g[1]) = 3
    /\ g[1][1].op = "ResolveString"
    /\ g[1][2].op = "ResolveVariable" /\ g[1][2].pc = "resumed"
    /\ g[1][3].op = "ResolveVariable" /\ g[1][3].pc = "runlock"
    /\ g[2] # <<>>
    /\ Top(2).pc = "wait"
    /\ mu.w = 2
    /\ mu.r = { <<1, 3>> }

====
